---- MODULE Spec2Model ----
(***************************************************************************)
(* Model of the claude-mcp-scheduler task scheduler (scheduler.ts) and of  *)
(* the tool connection it shares between jobs (mcp-client.ts).             *)
(*                                                                         *)
(* One action is one turn of the JavaScript event loop: a public call      *)
(* (start, stop), a cron trigger firing, or the resumption of an `await`   *)
(* inside executeSchedule / connect / disconnect / saveOutput. lastOp      *)
(* holds what that turn did and what its caller observed; Return ends the  *)
(* turn and the next one starts from an idle event loop.                   *)
(***************************************************************************)
EXTENDS Naturals, Sequences, FiniteSets, Bags, TLC

\* ------------------------------------------------------------------ bounds
MaxBatch == 2      \* longest batch handed to start()
MaxTriggers == 2   \* cron.ScheduledTask objects ever created
MaxInFlight == 2   \* executions of executeSchedule suspended at an await
MaxToolUses == 2   \* tool_use blocks in one response of the model

\* ------------------------------------------------------------------ inputs
Names == {"A", "B"}

\* A cron expression is the sequence of its whitespace-separated fields.
CronEverySecond == <<"*", "*", "*", "*", "*", "*">>
CronHourly == <<"0", "*", "*", "*", "*">>
CronInvalid == <<"invalid">>

CronFields == {"*", "0", "30", "*/5"}

\* cron.validate: 5 fields (minute resolution) or 6 fields (with seconds),
\* every field well formed.
validate(cronExpr) ==
    /\ Len(cronExpr) \in {5, 6}
    /\ \A i \in 1..Len(cronExpr) : cronExpr[i] \in CronFields

Undefined == "undefined"
OutputTemplate == "outputs/{name}-{date}.txt"

\* The Schedule records a caller can hand to start(): job A runs every second
\* and keeps no file, job B is hourly and writes its output to a file.
\* Job A also comes malformed (an invalid cadence) and disabled.
OutputPathOf(name) == IF name = "B" THEN OutputTemplate ELSE Undefined

Schedule(name, cronExpr, enabled) ==
    [name |-> name, cron |-> cronExpr, enabled |-> enabled,
     prompt |-> "Test prompt", outputPath |-> OutputPathOf(name)]

Definitions ==
    {Schedule("A", CronEverySecond, TRUE), Schedule("A", CronInvalid, TRUE),
     Schedule("A", CronEverySecond, FALSE), Schedule("B", CronHourly, TRUE)}

Batches == UNION {[1..k -> Definitions] : k \in 0..MaxBatch}

\* ------------------------------------------------------------------ state
VARIABLES
    tasks,          \* Scheduler.tasks: the Map, as its entries in insertion order
    triggers,       \* every cron.ScheduledTask created so far, by handle
    execs,          \* bag of executeSchedule invocations suspended at an await
    isConnected,    \* MCPClient.isConnected
    client,         \* MCPClient.client: Null or a Client object
    transport,      \* MCPClient.transport: Null or a transport object
    serverProcess,  \* MCPClient.serverProcess: Null or a child process
    tools,          \* MCPClient.tools (the keys of the Map)
    files,          \* output files written by saveOutput
    config,         \* ConfigManager.config: Null or a Config
    lastOp          \* what the last step did and what its caller observed

clientVars == <<isConnected, client, transport, serverProcess, tools>>
vars == <<tasks, triggers, execs, isConnected, client, transport, serverProcess,
          tools, files, config, lastOp>>

ServerTools == {"read_file", "write_file"}

Null == "null"
Object == "object"

\* op: the call or await resumption; name: the job it is about; error: what
\* the call threw to its caller; outcome: how an execution ended; skipped:
\* whether start() logged a 'Skipping disabled schedule'; logged: what else
\* the step wrote to the log (the error a catch block logged, a server start);
\* result: the text a call of the prompt executor returned to its caller.
Label(op, name, error, outcome, skipped) ==
    [op |-> op, name |-> name, error |-> error, outcome |-> outcome,
     skipped |-> skipped, logged |-> "none", result |-> Undefined]

Idle == Label("idle", "", "none", "none", FALSE)

\* ConfigManager.config before any assignment: null, as a record so that it
\* can be compared with a Config
NoConfig == [null |-> TRUE]

Init ==
    /\ tasks = <<>>
    /\ triggers = <<>>
    /\ execs = EmptyBag
    /\ isConnected = FALSE
    /\ client = Null
    /\ transport = Null
    /\ serverProcess = Null
    /\ tools = {}
    /\ files = {}
    /\ config = NoConfig
    /\ lastOp = Idle

\* ------------------------------------------------------------------ registry
\* Map.has
has(ts, name) == \E i \in 1..Len(ts) : ts[i].name = name

\* Map.get (only used where has holds)
get(ts, name) == ts[CHOOSE i \in 1..Len(ts) : ts[i].name = name]

\* Map.delete
delete(ts, name) == SelectSeq(ts, LAMBDA t : t.name # name)

Result(ts, tr, error, name) ==
    [tasks |-> ts, triggers |-> tr, error |-> error, name |-> name, skipped |-> FALSE]

\* a Map.set that puts a new key in front
set_inFront(ts, entry) ==
    IF has(ts, entry.name)
    THEN [i \in 1..Len(ts) |-> IF ts[i].name = entry.name THEN entry ELSE ts[i]]
    ELSE <<entry>> \o ts

\* Map.set
set(ts, entry) ==
    IF has(ts, entry.name)
    THEN [i \in 1..Len(ts) |-> IF ts[i].name = entry.name THEN entry ELSE ts[i]]
    ELSE Append(ts, entry)

\* cron.schedule(..., { scheduled: true }): a new, running ScheduledTask
cronSchedule(tr, sched) ==
    Append(tr, [schedule |-> sched, status |-> "running", stops |-> 0])

\* scheduleTask without its `tasks.has` check: the entry is overwritten
scheduleTask_overwrites(sched, ts, tr) ==
    IF ~validate(sched.cron)
    THEN Result(ts, tr, "SchedulerError: invalid cron", sched.name)
    ELSE Result(set(ts, [name |-> sched.name, schedule |-> sched, task |-> Len(tr) + 1]),
                cronSchedule(tr, sched), "none", "")

\* scheduleTask without its `cron.validate` check
scheduleTask_unvalidated(sched, ts, tr) ==
    IF has(ts, sched.name)
    THEN Result(ts, tr, "SchedulerError: already scheduled", sched.name)
    ELSE Result(set(ts, [name |-> sched.name, schedule |-> sched, task |-> Len(tr) + 1]),
                cronSchedule(tr, sched), "none", "")

\* scheduleTask that starts a stopped trigger of the same job again instead
\* of creating one
scheduleTask_restarts(sched, ts, tr) ==
    IF has(ts, sched.name)
    THEN Result(ts, tr, "SchedulerError: already scheduled", sched.name)
    ELSE IF ~validate(sched.cron)
    THEN Result(ts, tr, "SchedulerError: invalid cron", sched.name)
    ELSE IF \E h \in 1..Len(tr) : tr[h].schedule.name = sched.name /\ tr[h].status = "stopped"
    THEN LET h == CHOOSE h \in 1..Len(tr) :
                      tr[h].schedule.name = sched.name /\ tr[h].status = "stopped"
         IN Result(set(ts, [name |-> sched.name, schedule |-> sched, task |-> h]),
                   [tr EXCEPT ![h] = [schedule |-> sched, status |-> "running",
                                      stops |-> tr[h].stops]],
                   "none", "")
    ELSE Result(set(ts, [name |-> sched.name, schedule |-> sched, task |-> Len(tr) + 1]),
                cronSchedule(tr, sched), "none", "")

\* Scheduler.scheduleTask: the registry and trigger list it leaves, and the
\* error it throws ("none" when it returns).
scheduleTask(sched, ts, tr) ==
    IF has(ts, sched.name)
    THEN Result(ts, tr, "SchedulerError: already scheduled", sched.name)
    ELSE IF ~validate(sched.cron)
    THEN Result(ts, tr, "SchedulerError: invalid cron", sched.name)
    ELSE Result(set(ts, [name |-> sched.name, schedule |-> sched, task |-> Len(tr) + 1]),
                cronSchedule(tr, sched), "none", "")

\* start without its `if (schedule.enabled)`
shouldSchedule_always(sched) == TRUE

\* Scheduler.start, `if (schedule.enabled)`
shouldSchedule(sched) == sched.enabled

\* Scheduler.start: the for loop over the batch; a throw of scheduleTask ends it.
RECURSIVE startFrom(_, _, _, _, _)
startFrom(schedules, i, ts, tr, skipped) ==
    IF i > Len(schedules) THEN [Result(ts, tr, "none", "") EXCEPT !.skipped = skipped]
    ELSE IF shouldSchedule(schedules[i])
    THEN LET r == scheduleTask(schedules[i], ts, tr)
         IN IF r.error # "none" THEN [r EXCEPT !.skipped = skipped]
            ELSE startFrom(schedules, i + 1, r.tasks, r.triggers, skipped)
    ELSE startFrom(schedules, i + 1, ts, tr, TRUE)

start(schedules, ts, tr) == startFrom(schedules, 1, ts, tr, FALSE)

\* What a start() call leaves behind and what its caller observes.
Started(r) ==
    /\ Len(r.triggers) <= MaxTriggers
    /\ tasks' = r.tasks
    /\ triggers' = r.triggers
    /\ lastOp' = Label("start", r.name, r.error, "none", r.skipped)
    /\ UNCHANGED <<execs, clientVars, files, config>>

\* The step is the call start(schedules).
StartCall(schedules) == lastOp = Idle /\ Started(start(schedules, tasks, triggers))

\* start() with any batch (batches with the same result are one step)
Start ==
    /\ lastOp = Idle
    /\ \E r \in {start(schedules, tasks, triggers) : schedules \in Batches} : Started(r)

\* cron.ScheduledTask.stop() on handle h
stopTask(tr, h) == [tr EXCEPT ![h].status = "stopped", ![h].stops = @ + 1]

\* stop(name) that forgets the entry but leaves its trigger running
stopOne_keepsTrigger(ts, tr, scheduleName) ==
    Result(SelectSeq(ts, LAMBDA t : t.name # scheduleName), tr, "none", scheduleName)

\* stop(name) that throws when the name is not registered
stopOne_throwsWhenMissing(ts, tr, scheduleName) ==
    IF has(ts, scheduleName)
    THEN Result(delete(ts, scheduleName), stopTask(tr, get(ts, scheduleName).task),
                "none", scheduleName)
    ELSE Result(ts, tr, "SchedulerError: not found", scheduleName)

\* Scheduler.stop(scheduleName), the branch with a name
stopOne(ts, tr, scheduleName) ==
    IF has(ts, scheduleName)
    THEN Result(delete(ts, scheduleName), stopTask(tr, get(ts, scheduleName).task),
                "none", scheduleName)
    ELSE Result(ts, tr, "none", scheduleName)

\* Scheduler.stop(), no name: the loop stops every entry's trigger, then clear()
RECURSIVE stopEach(_, _, _)
stopEach(ts, i, tr) ==
    IF i > Len(ts) THEN tr ELSE stopEach(ts, i + 1, stopTask(tr, ts[i].task))

\* stop() that clears the registry without stopping the triggers
stopAll_clearsOnly(ts, tr) == Result(<<>>, tr, "none", "")

stopAll(ts, tr) == Result(<<>>, stopEach(ts, 1, tr), "none", "")

stop(scheduleName) ==
    LET r == IF scheduleName # Undefined THEN stopOne(tasks, triggers, scheduleName)
             ELSE stopAll(tasks, triggers)
    IN /\ lastOp = Idle
       /\ tasks' = r.tasks
       /\ triggers' = r.triggers
       /\ lastOp' = Label(IF scheduleName # Undefined THEN "stop" ELSE "stopAll",
                          r.name, r.error,
                          IF scheduleName # Undefined /\ ~has(tasks, scheduleName)
                          THEN "not found" ELSE "stopped", FALSE)
       /\ UNCHANGED <<execs, clientVars, files, config>>

Stop == \E scheduleName \in Names \cup {Undefined} : stop(scheduleName)

\* ------------------------------------------------------------------ executions
\* MCPClient.isReady
isReady == isConnected /\ client # Null

\* the texts the prompt executor may return
Results == {"result 1", "result 2"}

\* An execution suspended at the await pc; result is the executor's result
\* once it has one.
Exec(schedule, pc) == [schedule |-> schedule, pc |-> pc, result |-> Undefined]

\* a writeFile that writes the prompt instead of the content it was given
writeFile_prompt(fs, schedule, content) ==
    {f \in fs : f.name # schedule.name \/ f.template # schedule.outputPath}
        \cup {[name |-> schedule.name, template |-> schedule.outputPath,
                content |-> schedule.prompt]}

\* writeFile(fullPath, content, 'utf-8'): the file at the path that the
\* job's name and template resolve to holds content, whatever it held before
writeFile(fs, schedule, content) ==
    {f \in fs : f.name # schedule.name \/ f.template # schedule.outputPath}
        \cup {[name |-> schedule.name, template |-> schedule.outputPath,
                content |-> content]}

\* The execution reaches an await and is suspended there, having logged `logged`.
SuspendLogging(base, e, op, logged) ==
    /\ execs' = base (+) SetToBag({e})
    /\ lastOp' = [Label(op, e.schedule.name, "none", "none", FALSE) EXCEPT !.logged = logged]
    /\ UNCHANGED <<tasks, triggers>>

Suspend(base, e, op) == SuspendLogging(base, e, op, "none")

\* executeSchedule, the end of the try block: 'Scheduled task completed'.
Completed(base, schedule, op) ==
    /\ execs' = base
    /\ lastOp' = Label(op, schedule.name, "none", "completed", FALSE)
    /\ UNCHANGED <<tasks, triggers>>

\* an executeSchedule that returns after saveOutput without its own log record
Saved_silent(base, schedule, op) ==
    /\ execs' = base
    /\ lastOp' = [Label(op, schedule.name, "none", "none", FALSE)
                    EXCEPT !.logged = "Output saved"]
    /\ UNCHANGED <<tasks, triggers>>

\* executeSchedule completes after saveOutput has logged 'Output saved'.
Saved(base, schedule, op) ==
    /\ execs' = base
    /\ lastOp' = [Label(op, schedule.name, "none", "completed", FALSE)
                    EXCEPT !.logged = "Output saved"]
    /\ UNCHANGED <<tasks, triggers>>

\* a catch block that logs and throws the error again
catchBlock_rethrows(schedule, error, ts, tr) ==
    [thrown |-> error, tasks |-> ts, triggers |-> tr]

\* a catch block that gives the failing job up: its trigger is stopped and
\* its registry entry deleted
catchBlock_deactivates(schedule, error, ts, tr) ==
    [thrown |-> "none",
     tasks |-> SelectSeq(ts, LAMBDA t : t.name # schedule.name),
     triggers |-> [h \in 1..Len(tr) |->
                     IF tr[h].schedule.name = schedule.name
                     THEN [tr[h] EXCEPT !.status = "stopped"] ELSE tr[h]]]

\* a catch block after which the trigger engine fires the job no more
catchBlock_stopsTrigger(schedule, error, ts, tr) ==
    [thrown |-> "none", tasks |-> ts,
     triggers |-> [h \in 1..Len(tr) |->
                     IF tr[h].schedule.name = schedule.name
                     THEN [tr[h] EXCEPT !.status = "stopped"] ELSE tr[h]]]

\* executeSchedule, the catch block: it logs and does not throw, and it
\* touches neither the registry nor any trigger.
catchBlock(schedule, error, ts, tr) ==
    [thrown |-> "none", tasks |-> ts, triggers |-> tr]

Caught(base, schedule, op, error) ==
    LET c == catchBlock(schedule, error, tasks, triggers)
    IN /\ execs' = base
       /\ tasks' = c.tasks
       /\ triggers' = c.triggers
       /\ lastOp' = [Label(op, schedule.name, c.thrown, "failed", FALSE)
                       EXCEPT !.logged = error]

\* ClaudeHandler.executePrompt up to its first await: the readiness check.
\* The connection fields are not changed by the steps that get here.
CallExecutePrompt(base, schedule, op) ==
    IF isReady
    THEN Suspend(base, Exec(schedule, "executePrompt"), op)
    ELSE Caught(base, schedule, op, "APIError")

\* A caller of MCPClient.connect() other than a job's execution: the
\* application itself (main). The record has the fields of a Schedule, so
\* that its calls sit in execs beside the executions.
Direct ==
    [name |-> "main", cron |-> <<>>, enabled |-> TRUE, prompt |-> "",
     outputPath |-> Undefined]

\* connect() returns to its caller, having logged `logged`: executeSchedule
\* goes on to the executor, a direct caller sees the promise resolve.
ConnectResolved(base, schedule, op, logged) ==
    IF schedule = Direct
    THEN /\ execs' = base
         /\ lastOp' = [Label(op, schedule.name, "none", "resolved", FALSE)
                         EXCEPT !.logged = logged]
         /\ UNCHANGED <<tasks, triggers>>
    ELSE CallExecutePrompt(base, schedule, op)

\* an executeSchedule that logs the failure of connect() and goes on to the
\* executor, which then finds the client not ready
ConnectRejected_goesOn(base, schedule, op) ==
    Caught(base, schedule, op, "APIError")

\* connect() throws MCPError to its caller: executeSchedule catches it, a
\* direct caller sees the promise reject.
ConnectRejected(base, schedule, op) ==
    IF schedule = Direct
    THEN /\ execs' = base
         /\ lastOp' = Label(op, schedule.name, "MCPError", "rejected", FALSE)
         /\ UNCHANGED <<tasks, triggers>>
    ELSE Caught(base, schedule, op, "MCPError")

\* The caller of MCPClient.disconnect() itself: the application's shutdown.
Shutdown ==
    [name |-> "shutdown", cron |-> <<>>, enabled |-> TRUE, prompt |-> "",
     outputPath |-> Undefined]

\* disconnect() returns: to its own caller, which sees the promise resolve,
\* or into connect()'s catch block, which throws MCPError
DisconnectReturned(base, schedule, op) ==
    IF schedule = Shutdown
    THEN /\ execs' = base
         /\ lastOp' = Label(op, schedule.name, "none", "resolved", FALSE)
         /\ UNCHANGED <<tasks, triggers>>
    ELSE ConnectRejected(base, schedule, op)

\* a disconnect that forgets to clear the tools
Reset_keepsTools ==
    /\ serverProcess' = Null
    /\ client' = Null
    /\ transport' = Null
    /\ tools' = tools
    /\ isConnected' = FALSE

\* MCPClient.disconnect, its last synchronous part (lines 104-112)
Reset ==
    /\ serverProcess' = Null
    /\ client' = Null
    /\ transport' = Null
    /\ tools' = {}
    /\ isConnected' = FALSE

\* a disconnect() that, with nothing to close, leaves the fields as they are
DisconnectStart_noReset(base, schedule, op, conn) ==
    IF client # Null
    THEN /\ Suspend(base, Exec(schedule, "closeClient"), op)
         /\ isConnected' = conn
         /\ UNCHANGED <<client, transport, serverProcess, tools>>
    ELSE IF transport # Null
    THEN /\ Suspend(base, Exec(schedule, "closeTransport"), op)
         /\ isConnected' = conn
         /\ UNCHANGED <<client, transport, serverProcess, tools>>
    ELSE /\ isConnected' = conn
         /\ UNCHANGED <<client, transport, serverProcess, tools>>
         /\ DisconnectReturned(base, schedule, op)

\* disconnect(), called by connect()'s catch block or by the application: it
\* runs up to its first await, or, with nothing to close, to its end (and
\* connect() then throws MCPError). conn is isConnected as the step has left
\* it so far.
DisconnectStart(base, schedule, op, conn) ==
    IF client # Null
    THEN /\ Suspend(base, Exec(schedule, "closeClient"), op)
         /\ isConnected' = conn
         /\ UNCHANGED <<client, transport, serverProcess, tools>>
    ELSE IF transport # Null
    THEN /\ Suspend(base, Exec(schedule, "closeTransport"), op)
         /\ isConnected' = conn
         /\ UNCHANGED <<client, transport, serverProcess, tools>>
    ELSE /\ Reset
         /\ DisconnectReturned(base, schedule, op)

\* a connect() without the early return: it starts a server whenever called
ConnectStart_always(base, schedule, op, spawnOk) ==
    IF spawnOk
    THEN /\ serverProcess' = Object
         /\ transport' = Object
         /\ client' = Object
         /\ UNCHANGED <<isConnected, tools>>
         /\ SuspendLogging(base, Exec(schedule, "clientConnect"), op,
                           "Starting MCP server")
    ELSE DisconnectStart(base, schedule, op, isConnected)

\* MCPClient.connect up to its first await. Connected, it returns at once.
\* Otherwise it spawns the server and creates transport and client, and
\* awaits client.connect; a spawn that throws takes it to its catch block.
ConnectStart(base, schedule, op, spawnOk) ==
    IF isConnected
    THEN /\ ConnectResolved(base, schedule, op, "MCP client already connected")
         /\ UNCHANGED clientVars
    ELSE IF spawnOk
    THEN /\ serverProcess' = Object
         /\ transport' = Object
         /\ client' = Object
         /\ UNCHANGED <<isConnected, tools>>
         /\ SuspendLogging(base, Exec(schedule, "clientConnect"), op,
                           "Starting MCP server")
    ELSE DisconnectStart(base, schedule, op, isConnected)

\* a cron callback behind a global lock: it fires only when no execution is
\* in flight
Fire_locked(h) ==
    /\ execs = EmptyBag
    /\ lastOp = Idle
    /\ h \in 1..Len(triggers)
    /\ triggers[h].status = "running"
    /\ UNCHANGED <<files, config>>
    /\ IF isReady
       THEN /\ CallExecutePrompt(execs, triggers[h].schedule, "fire")
            /\ UNCHANGED clientVars
       ELSE \E spawnOk \in BOOLEAN :
                ConnectStart(execs, triggers[h].schedule, "fire", spawnOk)

\* A trigger fires: the cron callback calls executeSchedule, which runs to
\* its first await (connect()'s client.connect, or the executor's request).
Fire(h) ==
    LET schedule == triggers[h].schedule
    IN /\ lastOp = Idle
       /\ h \in 1..Len(triggers)
       /\ triggers[h].status = "running"
       /\ BagCardinality(execs) < MaxInFlight
       /\ UNCHANGED <<files, config>>
       /\ IF isReady
          THEN /\ CallExecutePrompt(execs, schedule, "fire")
               /\ UNCHANGED clientVars
          ELSE \* 'MCP client not ready, attempting to reconnect'
               \E spawnOk \in BOOLEAN : ConnectStart(execs, schedule, "fire", spawnOk)

\* await this.client.connect(this.transport) returns or throws
ClientConnectReturn(e, ok) ==
    LET base == execs (-) SetToBag({e})
    IN /\ lastOp = Idle
       /\ BagIn(e, execs)
       /\ e.pc = "clientConnect"
       /\ UNCHANGED <<files, config>>
       /\ IF ok
          THEN IF client = Null
               THEN \* discoverTools throws 'Client not connected'
                    DisconnectStart(base, e.schedule, "clientConnect", TRUE)
               ELSE /\ Suspend(base, Exec(e.schedule, "listTools"), "clientConnect")
                    /\ isConnected' = TRUE
                    /\ UNCHANGED <<client, transport, serverProcess, tools>>
          ELSE DisconnectStart(base, e.schedule, "clientConnect", isConnected)

\* await this.client.listTools() returns or throws
ListToolsReturn(e, ok) ==
    LET base == execs (-) SetToBag({e})
    IN /\ lastOp = Idle
       /\ BagIn(e, execs)
       /\ e.pc = "listTools"
       /\ UNCHANGED <<files, config>>
       /\ IF ok
          THEN /\ tools' = tools \cup ServerTools
               /\ UNCHANGED <<isConnected, client, transport, serverProcess>>
               /\ ConnectResolved(base, e.schedule, "listTools",
                                  "MCP client connected successfully")
          ELSE DisconnectStart(base, e.schedule, "listTools", isConnected)

\* await this.client.close() returns or throws (the throw is logged)
CloseClientReturn(e) ==
    LET base == execs (-) SetToBag({e})
    IN /\ lastOp = Idle
       /\ BagIn(e, execs)
       /\ e.pc = "closeClient"
       /\ UNCHANGED <<files, config>>
       /\ IF transport # Null
          THEN /\ Suspend(base, Exec(e.schedule, "closeTransport"), "closeClient")
               /\ UNCHANGED clientVars
          ELSE /\ Reset
               /\ DisconnectReturned(base, e.schedule, "closeClient")

\* await this.transport.close() returns or throws (the throw is logged)
CloseTransportReturn(e) ==
    LET base == execs (-) SetToBag({e})
    IN /\ lastOp = Idle
       /\ BagIn(e, execs)
       /\ e.pc = "closeTransport"
       /\ UNCHANGED <<files, config>>
       /\ Reset
       /\ DisconnectReturned(base, e.schedule, "closeTransport")

\* await this.claudeHandler.executePrompt(...) returns a result or throws
ExecutorReturn(e, ok) ==
    LET base == execs (-) SetToBag({e})
    IN /\ lastOp = Idle
       /\ BagIn(e, execs)
       /\ e.pc = "executePrompt"
       /\ UNCHANGED <<clientVars, files, config>>
       /\ IF ok
          THEN IF e.schedule.outputPath # Undefined
               THEN \E result \in Results :
                        Suspend(base, [Exec(e.schedule, "mkdir") EXCEPT !.result = result],
                                "executePrompt")
               ELSE Completed(base, e.schedule, "executePrompt")
          ELSE Caught(base, e.schedule, "executePrompt", "ExecutorError")

\* saveOutput: await mkdir(dir, { recursive: true }) returns or throws
MkdirReturn(e, ok) ==
    LET base == execs (-) SetToBag({e})
    IN /\ lastOp = Idle
       /\ BagIn(e, execs)
       /\ e.pc = "mkdir"
       /\ UNCHANGED <<clientVars, files, config>>
       /\ IF ok
          THEN Suspend(base, [e EXCEPT !.pc = "writeFile"], "mkdir")
          ELSE Caught(base, e.schedule, "mkdir", "SchedulerError")

\* saveOutput: await writeFile(fullPath, content, 'utf-8') returns or throws
WriteFileReturn(e, ok) ==
    LET base == execs (-) SetToBag({e})
    IN /\ lastOp = Idle
       /\ BagIn(e, execs)
       /\ e.pc = "writeFile"
       /\ UNCHANGED clientVars
       /\ IF ok
          THEN /\ files' = writeFile(files, e.schedule, e.result)
               /\ UNCHANGED config
               /\ Saved(base, e.schedule, "writeFile")
          ELSE /\ UNCHANGED <<files, config>>
               /\ Caught(base, e.schedule, "writeFile", "SchedulerError")

Trigger == \E h \in 1..Len(triggers) : Fire(h)
ClientConnect == \E e \in BagToSet(execs), ok \in BOOLEAN : ClientConnectReturn(e, ok)
ListTools == \E e \in BagToSet(execs), ok \in BOOLEAN : ListToolsReturn(e, ok)
CloseClient == \E e \in BagToSet(execs) : CloseClientReturn(e)
CloseTransport == \E e \in BagToSet(execs) : CloseTransportReturn(e)
Executor == \E e \in BagToSet(execs), ok \in BOOLEAN : ExecutorReturn(e, ok)
Mkdir == \E e \in BagToSet(execs), ok \in BOOLEAN : MkdirReturn(e, ok)
WriteFile == \E e \in BagToSet(execs), ok \in BOOLEAN : WriteFileReturn(e, ok)

\* The turn ends: control is back in the event loop.
Return ==
    /\ lastOp # Idle
    /\ lastOp' = Idle
    /\ UNCHANGED <<tasks, triggers, execs, clientVars, files, config>>

Next ==
    \/ Return
    \/ Start
    \/ Stop
    \/ Trigger
    \/ ClientConnect
    \/ ListTools
    \/ CloseClient
    \/ CloseTransport
    \/ Executor
    \/ Mkdir
    \/ WriteFile

Spec == Init /\ [][Next]_vars

\* ------------------------------------------------------------------ durability
\* The application's own order (main): the tool connection is connected
\* before the scheduler starts, and nothing stops a job. The executor fails
\* at every call made for job A and returns a result for every other job;
\* the file system works.
DurInit ==
    /\ tasks = <<>>
    /\ triggers = <<>>
    /\ execs = EmptyBag
    /\ isConnected = TRUE
    /\ client = Object
    /\ transport = Object
    /\ serverProcess = Object
    /\ tools = ServerTools
    /\ files = {}
    /\ config = NoConfig
    /\ lastOp = Idle

FireJob(n) == \E h \in 1..Len(triggers) : triggers[h].schedule.name = n /\ Fire(h)
ExecutorOf(n) ==
    \E e \in BagToSet(execs) : e.schedule.name = n /\ ExecutorReturn(e, n # "A")
MkdirOf(n) == \E e \in BagToSet(execs) : e.schedule.name = n /\ MkdirReturn(e, TRUE)
WriteFileOf(n) == \E e \in BagToSet(execs) : e.schedule.name = n /\ WriteFileReturn(e, TRUE)

DurTrigger == \E n \in Names : FireJob(n)
DurExecutor == \E n \in Names : ExecutorOf(n)
DurMkdir == \E n \in Names : MkdirOf(n)
DurWriteFile == \E n \in Names : WriteFileOf(n)

DurNext ==
    \/ Return
    \/ Start
    \/ DurTrigger
    \/ DurExecutor
    \/ DurMkdir
    \/ DurWriteFile

\* The event loop runs every turn that is ready: a running trigger fires at
\* each match of its cadence and an awaited operation that has settled
\* resumes its execution. A turn waits only while another turn runs, so the
\* fairness is strong.
DurFair ==
    /\ WF_vars(Return)
    /\ \A n \in Names :
          /\ SF_vars(FireJob(n))
          /\ SF_vars(ExecutorOf(n))
          /\ SF_vars(MkdirOf(n))
          /\ SF_vars(WriteFileOf(n))

DurSpec == DurInit /\ [][DurNext]_vars /\ DurFair

\* ------------------------------------------------------------------ client
\* The tool connection on its own: its callers call connect() directly, as
\* main does, any number of times, also while an earlier call is in flight.
Connect ==
    /\ lastOp = Idle
    /\ BagCardinality(execs) < MaxInFlight
    /\ UNCHANGED <<files, config>>
    /\ \E spawnOk \in BOOLEAN : ConnectStart(execs, Direct, "connect", spawnOk)

\* the application calls disconnect()
Disconnect ==
    /\ lastOp = Idle
    /\ BagCardinality(execs) < MaxInFlight
    /\ UNCHANGED <<files, config>>
    /\ DisconnectStart(execs, Shutdown, "disconnect", isConnected)

\* the tool names a caller passes to callTool: those the server exposes and
\* one it does not
ToolNames == ServerTools \cup {"unknown_tool"}

\* a callTool whose request to the server is in flight
ToolCall(toolName) ==
    [schedule |-> Direct, pc |-> "clientCallTool", result |-> Undefined,
     toolName |-> toolName]

\* callTool settles; the label names the tool
ToolCallSettled(op, toolName, error, outcome) ==
    lastOp' = Label(op, toolName, error, outcome, FALSE)

\* a callTool that forwards whatever name it is given
CallToolStart_unchecked(toolName) ==
    /\ lastOp = Idle
    /\ BagCardinality(execs) < MaxInFlight
    /\ UNCHANGED <<tasks, triggers, clientVars, files, config>>
    /\ IF client = Null
       THEN /\ ToolCallSettled("callTool", toolName, "MCPError", "rejected")
            /\ UNCHANGED execs
       ELSE /\ execs' = execs (+) SetToBag({ToolCall(toolName)})
            /\ lastOp' = [Label("callTool", toolName, "none", "none", FALSE)
                            EXCEPT !.logged = "Calling MCP tool"]

\* MCPClient.callTool up to its first await: without a client, or for a name
\* that is not in the tools map, it throws MCPError; otherwise it logs
\* 'Calling MCP tool' and awaits client.callTool.
CallToolStart(toolName) ==
    /\ lastOp = Idle
    /\ BagCardinality(execs) < MaxInFlight
    /\ UNCHANGED <<tasks, triggers, clientVars, files, config>>
    /\ IF client = Null
       THEN /\ ToolCallSettled("callTool", toolName, "MCPError", "rejected")
            /\ UNCHANGED execs
       ELSE IF toolName \notin tools
       THEN /\ ToolCallSettled("callTool", toolName, "MCPError", "rejected")
            /\ UNCHANGED execs
       ELSE /\ execs' = execs (+) SetToBag({ToolCall(toolName)})
            /\ lastOp' = [Label("callTool", toolName, "none", "none", FALSE)
                            EXCEPT !.logged = "Calling MCP tool"]

\* await this.client.callTool(...) returns a response, which callTool maps
\* to its result, or throws: the catch block logs 'MCP tool call failed' and
\* throws MCPError
ClientCallToolReturn(e, ok) ==
    /\ lastOp = Idle
    /\ BagIn(e, execs)
    /\ e.pc = "clientCallTool"
    /\ execs' = execs (-) SetToBag({e})
    /\ UNCHANGED <<tasks, triggers, clientVars, files, config>>
    /\ IF ok
       THEN ToolCallSettled("clientCallTool", e.toolName, "none", "resolved")
       ELSE lastOp' = [Label("clientCallTool", e.toolName, "MCPError", "rejected", FALSE)
                         EXCEPT !.logged = "MCP tool call failed"]

CallToolOf == \E toolName \in ToolNames : CallToolStart(toolName)
ClientCallTool == \E e \in BagToSet(execs), ok \in BOOLEAN : ClientCallToolReturn(e, ok)

ClientNext ==
    \/ Return
    \/ Connect
    \/ Disconnect
    \/ CallToolOf
    \/ ClientCallTool
    \/ ClientConnect
    \/ ListTools
    \/ CloseClient
    \/ CloseTransport

ClientSpec == Init /\ [][ClientNext]_vars

\* ------------------------------------------------------------------ connection loss
\* a child process that has exited: the field still refers to the object
Exited == "exited"

\* The server process of an established connection exits on its own (an exit
\* before that makes client.connect or listTools throw, see
\* ClientConnectReturn and ListToolsReturn). connect()
\* registers a handler for the process's 'error' event and one for its stderr
\* data, none for 'exit' or 'close', and none on the client or the transport:
\* no code of MCPClient runs.
ServerExit ==
    /\ lastOp = Idle
    /\ isConnected
    /\ tools = ServerTools
    /\ serverProcess = Object
    /\ serverProcess' = Exited
    /\ lastOp' = Label("serverExit", "", "none", "none", FALSE)
    /\ UNCHANGED <<tasks, triggers, execs, isConnected, client, transport, tools, files, config>>

\* The scheduler and its tool connection, with a server that may exit.
LossNext ==
    \/ Return
    \/ Start
    \/ ServerExit
    \/ Trigger
    \/ ClientConnect
    \/ ListTools
    \/ CloseClient
    \/ CloseTransport
    \/ Executor
    \/ Mkdir
    \/ WriteFile

LossSpec == Init /\ [][LossNext]_vars

\* ------------------------------------------------------------------ prompt executor
\* ClaudeHandler.executePrompt step by step, called directly (test-prompt,
\* or the executor call that ExecutorReturn sums up as ok or not).

\* What anthropic.messages.create may reject with: an instance of the
\* SDK's Anthropic.APIError, or another error (a SyntaxError for a body that
\* is no JSON).
UpstreamErrors == {"Anthropic.APIError", "SyntaxError"}

\* executePrompt's catch block: an Anthropic.APIError is wrapped into the
\* application's APIError, every other error is thrown again as it is
rethrown(error) == IF error = "Anthropic.APIError" THEN "APIError" ELSE error

\* the ids of the tool_use blocks a response can hold
ToolUseIds == 1..MaxToolUses

\* the tool_use blocks of a response, by their ids: any ids in any order
ToolUses ==
    {tu \in UNION {[1..n -> ToolUseIds] : n \in 0..MaxToolUses} :
        \A i, j \in 1..Len(tu) : tu[i] = tu[j] => i = j}

\* an executePrompt call suspended at pc: requests is the number of
\* messages.create calls made so far, toolUses the tool_use blocks of the
\* first response, toolResults the tool results pushed so far
Call(pc, requests, toolUses, toolResults) ==
    [schedule |-> Direct, pc |-> pc, result |-> Undefined, requests |-> requests,
     toolUses |-> toolUses, toolResults |-> toolResults]

\* executePrompt throws error
Settled(base, op, error) ==
    /\ execs' = base
    /\ lastOp' = Label(op, Direct.name, error, "rejected", FALSE)
    /\ UNCHANGED <<tasks, triggers, clientVars, files, config>>

\* executePrompt returns text
Returned(base, op, text) ==
    /\ execs' = base
    /\ lastOp' = [Label(op, Direct.name, "none", "resolved", FALSE)
                    EXCEPT !.result = text]
    /\ UNCHANGED <<tasks, triggers, clientVars, files, config>>

\* executePrompt reaches an await, having logged `logged`
Pending(base, call, op, logged) ==
    /\ SuspendLogging(base, call, op, logged)
    /\ UNCHANGED <<clientVars, files, config>>

\* executePrompt is called: the readiness check, then the first request
ExecutePrompt ==
    /\ lastOp = Idle
    /\ BagCardinality(execs) < MaxInFlight
    /\ IF ~isReady
       THEN Settled(execs, "execute", "APIError")
       ELSE Pending(execs, Call("sendRequest", 1, <<>>, <<>>), "execute",
                    "Executing prompt")

\* the first messages.create returns a response with the text `text` and
\* the tool_use blocks toolUses, or throws error
SendRequestReturn(e, error, text, toolUses) ==
    LET base == execs (-) SetToBag({e})
    IN /\ lastOp = Idle
       /\ BagIn(e, execs)
       /\ e.pc = "sendRequest"
       /\ IF error # "none" THEN Settled(base, "sendRequest", rethrown(error))
          ELSE IF Len(toolUses) = 0 THEN Returned(base, "sendRequest", text)
          ELSE Pending(base, Call("callTool", e.requests, toolUses, <<>>),
                       "sendRequest", "Executing tool")

\* an executePrompt that a failing tool call aborts
CallToolReturn_aborts(e, threw, isError) ==
    LET base == execs (-) SetToBag({e})
        toolResults == Append(e.toolResults,
                              [tool_use_id |-> e.toolUses[Len(e.toolResults) + 1],
                               is_error |-> threw \/ isError])
    IN /\ lastOp = Idle
       /\ BagIn(e, execs)
       /\ e.pc = "callTool"
       /\ IF threw
          THEN Settled(base, "callTool", "MCPError")
          ELSE IF Len(toolResults) < Len(e.toolUses)
          THEN Pending(base, Call("callTool", e.requests, e.toolUses, toolResults),
                       "callTool", "Executing tool")
          ELSE Pending(base, Call("followUp", e.requests + 1, e.toolUses, toolResults),
                       "callTool", "none")

\* mcpClient.callTool returns a result whose isError is isError, or throws
\* (the catch block logs 'Tool execution failed'); either way a tool result
\* is pushed for the tool_use at hand, then the next tool is called or, after
\* the last one, the follow-up request is sent
CallToolReturn(e, threw, isError) ==
    LET base == execs (-) SetToBag({e})
        toolResults == Append(e.toolResults,
                              [tool_use_id |-> e.toolUses[Len(e.toolResults) + 1],
                               is_error |-> IF threw THEN TRUE ELSE isError])
        logged == IF threw THEN "Tool execution failed" ELSE "none"
    IN /\ lastOp = Idle
       /\ BagIn(e, execs)
       /\ e.pc = "callTool"
       /\ IF Len(toolResults) < Len(e.toolUses)
          THEN Pending(base, Call("callTool", e.requests, e.toolUses, toolResults),
                       "callTool", logged)
          ELSE Pending(base, Call("followUp", e.requests + 1, e.toolUses, toolResults),
                       "callTool", logged)

\* an executePrompt that goes on while the model asks for tools: the
\* tool_use blocks of the follow-up response are executed and another
\* request is sent
FollowUpReturn_loops(e, error, text, toolUses) ==
    LET base == execs (-) SetToBag({e})
    IN /\ lastOp = Idle
       /\ BagIn(e, execs)
       /\ e.pc = "followUp"
       /\ IF error # "none" THEN Settled(base, "followUp", rethrown(error))
          ELSE IF Len(toolUses) = 0 THEN Returned(base, "followUp", text)
          ELSE Pending(base, Call("callTool", e.requests, toolUses, <<>>),
                       "followUp", "Executing tool")

\* the follow-up messages.create returns a response with the text `text` and
\* the tool_use blocks toolUses, which are not looked at, or throws error
FollowUpReturn(e, error, text, toolUses) ==
    LET base == execs (-) SetToBag({e})
    IN /\ lastOp = Idle
       /\ BagIn(e, execs)
       /\ e.pc = "followUp"
       /\ IF error # "none" THEN Settled(base, "followUp", rethrown(error))
          ELSE Returned(base, "followUp", text)

SendRequest ==
    \E e \in BagToSet(execs), error \in UpstreamErrors \cup {"none"},
       text \in Results, toolUses \in ToolUses :
        SendRequestReturn(e, error, text, toolUses)
CallTool ==
    \E e \in BagToSet(execs), threw \in BOOLEAN, isError \in BOOLEAN :
        CallToolReturn(e, threw, isError)
FollowUp ==
    \E e \in BagToSet(execs), error \in UpstreamErrors \cup {"none"},
       text \in Results, toolUses \in ToolUses :
        FollowUpReturn(e, error, text, toolUses)

\* the executor is called with the client connected or not
HandlerInit == Init \/ DurInit

HandlerNext ==
    \/ Return
    \/ ExecutePrompt
    \/ SendRequest
    \/ CallTool
    \/ FollowUp

HandlerSpec == HandlerInit /\ [][HandlerNext]_vars

\* ------------------------------------------------------------------ paths
\* A string is looked into through its characters. A run of characters other
\* than '.' and '/' is one element, and so is each placeholder.
chars(s) ==
    CASE s = "" -> <<>>
      [] s = "report" -> <<"report">>
      [] s = "a.b" -> <<"a", ".", "b">>
      [] s = ".." -> <<".", ".">>
      [] s = "../../up" -> <<".", ".", "/", ".", ".", "/", "up">>
      [] s = "/etc/cron" -> <<"/", "etc", "/", "cron">>
      [] s = "./data" -> <<".", "/", "data">>
      [] s = "./reports" -> <<".", "/", "reports">>
      [] s = "/tmp" -> <<"/", "tmp">>
      [] s = " " -> <<" ">>
      [] s = "{name}.txt" -> <<"{name}", ".", "txt">>
      [] s = "{name}/{timestamp}.txt" -> <<"{name}", "/", "{timestamp}", ".", "txt">>
      [] s = "outputs/{name}-{date}.txt" ->
            <<"outputs", "/", "{name}", "-", "{date}", ".", "txt">>
      [] s = "outputs/./{name}/../{name}.txt" ->
            <<"outputs", "/", ".", "/", "{name}", "/", ".", ".", "/", "{name}", ".", "txt">>
      [] s = "../outputs/{name}.txt" ->
            <<".", ".", "/", "outputs", "/", "{name}", ".", "txt">>
      [] s = "/var/{name}.txt" -> <<"/", "var", "/", "{name}", ".", "txt">>
      [] s = "{date}/{id}-{timestamp}.txt" ->
            <<"{date}", "/", "{id}", "-", "{timestamp}", ".", "txt">>
      [] s = "{date}/{name}-{date}.txt" ->
            <<"{date}", "/", "{name}", "-", "{date}", ".", "txt">>
      [] s = "{timestamp}" -> <<"{timestamp}">>
      [] s = "$&" -> <<"$", "&">>
      [] s = "$$5" -> <<"$", "$", "5">>

PathNames ==
    {"", "report", "a.b", "..", "../../up", "/etc/cron", "{timestamp}", "$&", "$$5"}

PathTemplates ==
    {"", "{name}.txt", "{name}/{timestamp}.txt", "outputs/{name}-{date}.txt",
     "outputs/./{name}/../{name}.txt", "../outputs/{name}.txt", "/var/{name}.txt",
     "{date}/{id}-{timestamp}.txt", "{date}/{name}-{date}.txt"}

\* the Schedule records a configuration file can hold
PathConfigs ==
    {[name |-> name, cron |-> CronHourly, enabled |-> TRUE, prompt |-> "Test prompt",
      outputPath |-> outputPath] :
        name \in PathNames, outputPath \in PathTemplates \cup {Undefined}}

\* the process working directory
Cwd == <<"/", "work">>

\* What new Date().toISOString() returns at the instants of the clock, in
\* the order of time: the last millisecond of a day and the first of the next.
Clock ==
    << <<"2026-10-31", "T", "23", ":", "59", ":", "59", ".", "999", "Z">>,
       <<"2026-11-01", "T", "00", ":", "00", ":", "00", ".", "000", "Z">> >>

\* iso.replace(/[:.]/g, '-')
timestampOf(iso) ==
    [i \in 1..Len(iso) |-> IF iso[i] \in {":", "."} THEN "-" ELSE iso[i]]

\* iso.split('T')[0] ?? ''
dateOf(iso) ==
    IF \E i \in 1..Len(iso) : iso[i] = "T"
    THEN SubSeq(iso, 1, (CHOOSE i \in 1..Len(iso) :
                            iso[i] = "T" /\ \A j \in 1..(i - 1) : iso[j] # "T") - 1)
    ELSE iso

\* the clock as the whole application reads it where time is not the matter
Now == Clock[2]
Timestamp == timestampOf(Now)
Date == dateOf(Now)

\* String.prototype.includes
includes(str, sub) ==
    \E i \in 1..(Len(str) + 1) :
        /\ i + Len(sub) - 1 <= Len(str)
        /\ SubSeq(str, i, i + Len(sub) - 1) = sub

\* GetSubstitution of String.prototype.replace for a string pattern: in the
\* replacement, $$ stands for '$', $& for the matched text, $` for the text
\* before the match and $' for the text after it; any other '$' is itself.
\* The characters ` and ' are the elements "grave" and "apostrophe".
RECURSIVE GetSubstitution(_, _, _, _)
GetSubstitution(replacement, matched, before, after) ==
    IF replacement = <<>> THEN <<>>
    ELSE IF Head(replacement) = "$" /\ Len(replacement) >= 2
                /\ replacement[2] \in {"$", "&", "grave", "apostrophe"}
    THEN (CASE replacement[2] = "$" -> <<"$">>
            [] replacement[2] = "&" -> matched
            [] replacement[2] = "grave" -> before
            [] replacement[2] = "apostrophe" -> after)
            \o GetSubstitution(SubSeq(replacement, 3, Len(replacement)),
                               matched, before, after)
    ELSE <<Head(replacement)>>
            \o GetSubstitution(Tail(replacement), matched, before, after)

\* String.prototype.replace(pattern, replacement) with a string pattern of one
\* element: the first occurrence only, replaced by the substitution that the
\* replacement stands for
replace(str, pattern, replacement) ==
    IF \E i \in 1..Len(str) : str[i] = pattern
    THEN LET i == CHOOSE i \in 1..Len(str) :
                      /\ str[i] = pattern
                      /\ \A j \in 1..(i - 1) : str[j] # pattern
             before == SubSeq(str, 1, i - 1)
             after == SubSeq(str, i + 1, Len(str))
         IN before \o GetSubstitution(replacement, <<pattern>>, before, after) \o after
    ELSE str

\* the segments of a path between its separators
RECURSIVE split(_)
split(str) ==
    IF \E i \in 1..Len(str) : str[i] = "/"
    THEN LET i == CHOOSE i \in 1..Len(str) :
                      /\ str[i] = "/"
                      /\ \A j \in 1..(i - 1) : str[j] # "/"
         IN <<SubSeq(str, 1, i - 1)>> \o split(SubSeq(str, i + 1, Len(str)))
    ELSE <<str>>

RECURSIVE join(_)
join(segments) ==
    IF segments = <<>> THEN <<>>
    ELSE IF Len(segments) = 1 THEN segments[1]
    ELSE segments[1] \o <<"/">> \o join(Tail(segments))

\* node:path normalizeString: '.' and empty segments are dropped, '..' takes
\* the segment before it away, or stays when there is none and the path is
\* relative
RECURSIVE normalizeString(_, _, _)
normalizeString(segments, res, allowAboveRoot) ==
    IF segments = <<>> THEN res
    ELSE LET seg == Head(segments)
             next == IF seg = <<>> \/ seg = <<".">> THEN res
                     ELSE IF seg = <<".", ".">>
                     THEN IF Len(res) > 0 /\ res[Len(res)] # <<".", ".">>
                          THEN SubSeq(res, 1, Len(res) - 1)
                          ELSE IF allowAboveRoot THEN Append(res, seg) ELSE res
                     ELSE Append(res, seg)
         IN normalizeString(Tail(segments), next, allowAboveRoot)

\* path.isAbsolute
isAbsolute(str) == Len(str) > 0 /\ str[1] = "/"

\* path.normalize
normalize(str) ==
    IF str = <<>> THEN <<".">>
    ELSE LET trailing == str[Len(str)] = "/"
             body == join(normalizeString(split(str), <<>>, ~isAbsolute(str)))
         IN IF body = <<>>
            THEN IF isAbsolute(str) THEN <<"/">>
                 ELSE IF trailing THEN <<".", "/">> ELSE <<".">>
            ELSE (IF isAbsolute(str) THEN <<"/">> ELSE <<>>)
                    \o body \o (IF trailing THEN <<"/">> ELSE <<>>)

\* path.resolve of one argument: against the working directory unless absolute
resolve(str) ==
    LET from == IF isAbsolute(str) THEN str ELSE Cwd \o <<"/">> \o str
    IN <<"/">> \o join(normalizeString(split(from), <<>>, FALSE))

\* ConfigManager.isValidPath
isValidPath(filePath) ==
    LET normalizedPath == normalize(chars(filePath))
    IN ~includes(normalizedPath, <<".", ".">>) /\ ~isAbsolute(normalizedPath)

\* String.prototype.trim
RECURSIVE trim(_)
trim(str) ==
    IF str = <<>> THEN <<>>
    ELSE IF Head(str) = " " THEN trim(Tail(str))
    ELSE IF str[Len(str)] = " " THEN trim(SubSeq(str, 1, Len(str) - 1))
    ELSE str

\* a validateSchedules that does not compare the names
validateSchedules_anyNames(schedules) ==
    \A i \in 1..Len(schedules) :
        /\ trim(chars(schedules[i].name)) # <<>>
        /\ schedules[i].cron # <<>>
        /\ schedules[i].prompt # ""
        /\ schedules[i].outputPath # Undefined => isValidPath(schedules[i].outputPath)

\* ConfigManager.validateSchedules: TRUE when it returns, FALSE when it throws
validateSchedules(schedules) ==
    \A i \in 1..Len(schedules) :
        /\ trim(chars(schedules[i].name)) # <<>>
        /\ \A j \in 1..(i - 1) : schedules[j].name # schedules[i].name
        /\ schedules[i].cron # <<>>
        /\ schedules[i].prompt # ""
        /\ schedules[i].outputPath # Undefined => isValidPath(schedules[i].outputPath)

\* saveOutput: the file name after the three replacements; now1 and now2 are
\* what the two `new Date()` of the statement return
expand(scheduleName, outputPath, now1, now2) ==
    replace(replace(replace(chars(outputPath), "{name}", chars(scheduleName)),
                    "{timestamp}", timestampOf(now1)),
            "{date}", dateOf(now2))

filename(scheduleName, outputPath) == expand(scheduleName, outputPath, Now, Now)

\* saveOutput: the path handed to mkdir and writeFile
fullPath(scheduleName, outputPath) == resolve(filename(scheduleName, outputPath))

\* The application loads its configuration and starts the scheduler with it,
\* once: a configuration of one job that validateSchedules accepts.
PathStart ==
    /\ tasks = <<>>
    /\ triggers = <<>>
    /\ \E schedule \in PathConfigs :
          /\ validateSchedules(<<schedule>>)
          /\ StartCall(<<schedule>>)

PathNext ==
    \/ Return
    \/ PathStart
    \/ Trigger
    \/ Executor
    \/ Mkdir
    \/ WriteFile

PathSpec == DurInit /\ [][PathNext]_vars

\* ------------------------------------------------------------------ saveOutput
\* Scheduler.saveOutput on its own, one call at a time, for every job name
\* and every template, with the clock read twice.

\* a saveOutput call suspended at pc, with its locals filename and fullPath
SaveCall(scheduleName, outputPath, content, file, pc) ==
    [schedule |-> [name |-> scheduleName, cron |-> <<>>, enabled |-> TRUE,
                   prompt |-> "", outputPath |-> outputPath],
     pc |-> pc, result |-> content, filename |-> file, fullPath |-> resolve(file)]

\* saveOutput is called and runs to `await mkdir`
SaveOutput(scheduleName, outputPath, content, now1, now2) ==
    /\ lastOp = Idle
    /\ execs = EmptyBag
    /\ files = {}
    /\ execs' = SetToBag({SaveCall(scheduleName, outputPath, content,
                                   expand(scheduleName, outputPath, now1, now2), "mkdir")})
    /\ lastOp' = Label("saveOutput", scheduleName, "none", "none", FALSE)
    /\ UNCHANGED <<tasks, triggers, clientVars, files, config>>

\* saveOutput's catch block: 'Failed to save output', SchedulerError
SaveFailed(op, e) ==
    /\ execs' = EmptyBag
    /\ lastOp' = [Label(op, e.schedule.name, "SchedulerError", "rejected", FALSE)
                    EXCEPT !.logged = "Failed to save output"]
    /\ UNCHANGED <<tasks, triggers, clientVars, files, config>>

\* await mkdir(dir, { recursive: true }) returns or throws
SaveMkdirReturn(e, ok) ==
    /\ lastOp = Idle
    /\ BagIn(e, execs)
    /\ e.pc = "mkdir"
    /\ IF ok
       THEN /\ execs' = SetToBag({[e EXCEPT !.pc = "writeFile"]})
            /\ lastOp' = Label("mkdir", e.schedule.name, "none", "none", FALSE)
            /\ UNCHANGED <<tasks, triggers, clientVars, files, config>>
       ELSE SaveFailed("mkdir", e)

\* await writeFile(fullPath, content, 'utf-8') returns or throws
SaveWriteFileReturn(e, ok) ==
    /\ lastOp = Idle
    /\ BagIn(e, execs)
    /\ e.pc = "writeFile"
    /\ IF ok
       THEN /\ execs' = EmptyBag
            /\ files' = {f \in files : f.path # e.fullPath}
                            \cup {[path |-> e.fullPath, content |-> e.result]}
            /\ lastOp' = [Label("writeFile", e.schedule.name, "none", "resolved", FALSE)
                            EXCEPT !.logged = "Output saved"]
            /\ UNCHANGED <<tasks, triggers, clientVars, config>>
       ELSE SaveFailed("writeFile", e)

SaveOutputAny ==
    \E scheduleName \in PathNames, outputPath \in PathTemplates, content \in Results,
       t1 \in 1..Len(Clock), t2 \in 1..Len(Clock) :
        /\ t1 <= t2
        /\ SaveOutput(scheduleName, outputPath, content, Clock[t1], Clock[t2])
SaveMkdir == \E e \in BagToSet(execs), ok \in BOOLEAN : SaveMkdirReturn(e, ok)
SaveWriteFile == \E e \in BagToSet(execs), ok \in BOOLEAN : SaveWriteFileReturn(e, ok)

SaveNext ==
    \/ Return
    \/ SaveOutputAny
    \/ SaveMkdir
    \/ SaveWriteFile

SaveSpec == Init /\ [][SaveNext]_vars

\* ------------------------------------------------------------------ configuration
\* ConfigManager on its own: loadConfig and getConfig called in any order,
\* for a configuration file that is missing, unreadable, not JSON, or holds
\* any of the listed contents. temperature is in tenths.
DEFAULT_CONFIG ==
    [schedules |-> <<>>,
     mcp |-> [filesystem |-> [command |-> "npx",
                              allowedDirectories |-> <<"./data", "./reports">>]],
     anthropic |-> [model |-> "claude-3-5-sonnet-20241022", maxTokens |-> 4096,
                    temperature |-> 7]]

\* an object without properties
Empty == [k \in {} |-> TRUE]

\* {...a, ...b}
spread(a, b) ==
    [k \in DOMAIN a \cup DOMAIN b |-> IF k \in DOMAIN b THEN b[k] ELSE a[k]]

\* the schedules arrays a configuration file can hold
ConfigSchedules ==
    LET job(name) == [name |-> name, cron |-> CronHourly, enabled |-> TRUE,
                      prompt |-> "Test prompt", outputPath |-> Undefined]
    IN {<<>>}
       \cup {<<schedule>> : schedule \in
                {c \in PathConfigs :
                    /\ c.name \in {"", "report", ".."}
                    /\ c.outputPath \in {Undefined, "{name}.txt", "../outputs/{name}.txt",
                                          "outputs/./{name}/../{name}.txt",
                                          "/var/{name}.txt"}}}
       \cup {<<job(" ")>>,
             <<[job("report") EXCEPT !.cron = <<>>]>>,
             <<[job("report") EXCEPT !.prompt = ""]>>,
             <<job("report"), job("report")>>,
             <<job("report"), [job("report") EXCEPT !.enabled = FALSE]>>,
             <<job("report"), job("a.b")>>}

\* what JSON.parse returns for the contents of a configuration file: each
\* section present or absent
ParsedConfigs ==
    {spread(spread(a, b), c) :
        a \in {Empty} \cup {[schedules |-> ss] : ss \in ConfigSchedules},
        b \in {Empty} \cup {[anthropic |-> [maxTokens |-> m]] : m \in {0, 8192}}
                      \cup {[anthropic |-> [temperature |-> 21]]},
        c \in {Empty} \cup {[mcp |-> [filesystem |-> [allowedDirectories |-> d]]] :
                                d \in {<<>>, <<"/tmp">>, <<"./data">>}}}

\* how await readFile(CONFIG_FILE_PATH) and JSON.parse end
ReadFileResults ==
    {[error |-> code] : code \in {"ENOENT", "EACCES", "SyntaxError"}}
        \cup {[parsed |-> partial] : partial \in ParsedConfigs}

\* ConfigManager.mergeWithDefaults
mergeWithDefaults(partial) ==
    [schedules |-> IF "schedules" \in DOMAIN partial
                   THEN partial.schedules ELSE DEFAULT_CONFIG.schedules,
     mcp |-> [filesystem |->
                 spread(DEFAULT_CONFIG.mcp.filesystem,
                        IF "mcp" \in DOMAIN partial
                        THEN partial.mcp.filesystem ELSE Empty)],
     anthropic |-> spread(DEFAULT_CONFIG.anthropic,
                          IF "anthropic" \in DOMAIN partial
                          THEN partial.anthropic ELSE Empty)]

\* ConfigManager.validateApiKey: apiKey is whether ANTHROPIC_API_KEY is set
\* and not empty
validateApiKey(apiKey) == apiKey

\* ConfigManager.validateMCPConfig: TRUE when it returns, FALSE when it throws
validateMCPConfig(mcp) ==
    /\ mcp.filesystem.command # ""
    /\ Len(mcp.filesystem.allowedDirectories) # 0
    /\ \A i \in 1..Len(mcp.filesystem.allowedDirectories) :
          isValidPath(mcp.filesystem.allowedDirectories[i])

\* ConfigManager.validateAnthropicConfig
validateAnthropicConfig(anthropic) ==
    /\ anthropic.model # ""
    /\ ~(anthropic.maxTokens <= 0 \/ anthropic.maxTokens > 100000)
    /\ ~(anthropic.temperature < 0 \/ anthropic.temperature > 20)

\* ConfigManager.validateConfig
validateConfig(cfg, apiKey) ==
    /\ validateApiKey(apiKey)
    /\ validateSchedules(cfg.schedules)
    /\ validateMCPConfig(cfg.mcp)
    /\ validateAnthropicConfig(cfg.anthropic)

\* ConfigManager.loadConfig after its await: what it leaves in this.config
\* and what it throws, given how readFile and JSON.parse ended. The field
\* is assigned before the validation, in the try block and in the ENOENT
\* branch of the catch block alike.
loadConfig(old, r, apiKey) ==
    IF "parsed" \in DOMAIN r
    THEN LET merged == mergeWithDefaults(r.parsed)
         IN [config |-> merged,
             error |-> IF validateConfig(merged, apiKey) THEN "none" ELSE "ValidationError",
             logged |-> IF validateConfig(merged, apiKey)
                        THEN "Configuration loaded successfully" ELSE "none"]
    ELSE IF r.error = "ENOENT"
    THEN [config |-> DEFAULT_CONFIG,
          error |-> IF validateConfig(DEFAULT_CONFIG, apiKey) THEN "none" ELSE "ValidationError",
          logged |-> "Config file not found, using defaults"]
    ELSE [config |-> old, error |-> "ConfigurationError", logged |-> "none"]

\* ConfigManager.getConfig
getConfig(cfg) ==
    IF cfg = NoConfig
    THEN [error |-> "ConfigurationError"]
    ELSE [error |-> "none", value |-> cfg]

\* loadConfig is called: it runs to await readFile
LoadConfig ==
    /\ lastOp = Idle
    /\ BagCardinality(execs) < MaxInFlight
    /\ execs' = execs (+) SetToBag({Exec(Direct, "readFile")})
    /\ lastOp' = Label("loadConfig", Direct.name, "none", "none", FALSE)
    /\ UNCHANGED <<tasks, triggers, clientVars, files, config>>

\* await readFile(...) returns or throws, and loadConfig runs to its end
ReadFileReturn(e, r, apiKey) ==
    LET l == loadConfig(config, r, apiKey)
    IN /\ lastOp = Idle
       /\ BagIn(e, execs)
       /\ e.pc = "readFile"
       /\ execs' = execs (-) SetToBag({e})
       /\ config' = l.config
       /\ lastOp' = [Label("readFile", e.schedule.name, l.error,
                           IF l.error = "none" THEN "resolved" ELSE "rejected", FALSE)
                       EXCEPT !.logged = l.logged]
       /\ UNCHANGED <<tasks, triggers, clientVars, files>>

ReadFile ==
    \E e \in BagToSet(execs), r \in ReadFileResults, apiKey \in BOOLEAN :
        ReadFileReturn(e, r, apiKey)

\* getConfig is called
GetConfig ==
    /\ lastOp = Idle
    /\ lastOp' = Label("getConfig", Direct.name, getConfig(config).error,
                       IF getConfig(config).error = "none" THEN "returned" ELSE "threw",
                       FALSE)
    /\ UNCHANGED <<tasks, triggers, execs, clientVars, files, config>>

ConfigNext ==
    \/ Return
    \/ LoadConfig
    \/ ReadFile
    \/ GetConfig

ConfigSpec == Init /\ [][ConfigNext]_vars

\* ------------------------------------------------------------------ claims
\* handles of the running (non-stopped) triggers created for job n
Running(tr, n) ==
    {h \in 1..Len(tr) : tr[h].schedule.name = n /\ tr[h].status = "running"}

\* registry entries under the name n
Entries(ts, n) == {i \in 1..Len(ts) : ts[i].name = n}

\* Scheduler.getNextRunTime
getNextRunTime(cronExpression) == Null

\* Scheduler.getActiveTasks: Array.from(tasks.values()).map(...)
getActiveTasks(ts) ==
    [i \in 1..Len(ts) |->
        [name |-> ts[i].schedule.name, cron |-> ts[i].schedule.cron,
         nextRun |-> getNextRunTime(ts[i].schedule.cron)]]

\* Scheduler.isTaskActive
isTaskActive(scheduleName) == has(tasks, scheduleName)

C1_Unique ==
    \A n \in Names : /\ Cardinality(Entries(tasks, n)) <= 1
                     /\ Cardinality(Running(triggers, n)) <= 1

C1_Rejects ==
    lastOp'.op = "start" =>
        \A schedules \in Batches :
            StartCall(schedules) =>
                \A i \in 1..Len(schedules) :
                    LET before == start(SubSeq(schedules, 1, i - 1), tasks, triggers)
                    IN (/\ schedules[i].enabled
                        /\ before.error = "none"
                        /\ has(before.tasks, schedules[i].name))
                       => /\ lastOp'.error = "SchedulerError: already scheduled"
                          /\ lastOp'.name = schedules[i].name
                          /\ tasks' = before.tasks
                          /\ triggers' = before.triggers

\* C1: a job name never has more than one registry entry nor more than one
\* running trigger; a start() whose loop reaches an enabled definition with a
\* registered name throws SchedulerError for that name and leaves the registry
\* and the triggers as they were when the loop reached it.
C1_UniqueNames == []C1_Unique /\ [][C1_Rejects]_vars

\* C1 witness: start() has just thrown 'already scheduled' for A, which is
\* still registered with its one running trigger.
C1_Witness ==
    /\ lastOp.op = "start"
    /\ lastOp.error = "SchedulerError: already scheduled"
    /\ lastOp.name = "A"
    /\ isTaskActive("A")
    /\ Cardinality(Running(triggers, "A")) = 1

\* number of executions of job n that are in flight
InFlight(n) ==
    BagCardinality([e \in {x \in BagToSet(execs) : x.schedule.name = n} |-> execs[e]])

\* C2: no job ever has more than one execution of its routine in flight.
\* The cron callback starts executeSchedule at every firing, whether or not
\* the previous execution has finished.
C2_NoOverlap == \A n \in Names : InFlight(n) <= 1

\* C3: a start() that throws leaves the registry and the triggers as they
\* were before the call. The code keeps the jobs it registered before the
\* offending definition.
C3_AllOrNothing ==
    [][(lastOp'.op = "start" /\ lastOp'.error # "none")
       => (tasks' = tasks /\ triggers' = triggers)]_vars

C4_Valid ==
    /\ \A i \in 1..Len(tasks) : validate(tasks[i].schedule.cron)
    /\ \A h \in 1..Len(triggers) : validate(triggers[h].schedule.cron)

\* a start() that returns without an error is not the call of any batch that
\* holds an enabled definition with an invalid cadence
C4_Raises ==
    (lastOp'.op = "start" /\ lastOp'.error = "none") =>
        \A schedules \in Batches :
            (\E i \in 1..Len(schedules) :
                 schedules[i].enabled /\ ~validate(schedules[i].cron))
            => ~StartCall(schedules)

\* C4: a start() whose batch holds an enabled definition with an invalid
\* cadence throws, and no registry entry and no trigger ever carries an
\* invalid cadence.
C4_InvalidCadenceRejected == []C4_Valid /\ [][C4_Raises]_vars

\* C4 witness: start() has just thrown 'invalid cron' for A, and A is neither
\* registered nor has a trigger.
C4_Witness ==
    /\ lastOp.op = "start"
    /\ lastOp.error = "SchedulerError: invalid cron"
    /\ lastOp.name = "A"
    /\ ~isTaskActive("A")
    /\ \A h \in 1..Len(triggers) : triggers[h].schedule.name # "A"

\* C5: no registry entry, no trigger and no execution ever belongs to a
\* definition with enabled = false.
C5_DisabledInert ==
    /\ \A i \in 1..Len(tasks) : tasks[i].schedule.enabled
    /\ \A h \in 1..Len(triggers) : triggers[h].schedule.enabled
    /\ \A e \in BagToSet(execs) : e.schedule.enabled

\* C5 witness: start() has just skipped the disabled A and returned; A is
\* not active and has no trigger, while B of the same batch is running.
C5_Witness ==
    /\ lastOp.op = "start"
    /\ lastOp.skipped
    /\ lastOp.error = "none"
    /\ ~isTaskActive("A")
    /\ isTaskActive("B")
    /\ \A h \in 1..Len(triggers) : triggers[h].schedule.name # "A"

ExecOps ==
    {"fire", "clientConnect", "listTools", "closeClient", "closeTransport",
     "executePrompt", "mkdir", "writeFile"}

\* C6: whatever step of an execution fails (reconnect, executor, output
\* file), nothing is thrown out of executeSchedule to the cron callback.
C6_Contained == lastOp.op \in ExecOps => lastOp.error = "none"

\* C6 witness: an execution has just ended in the catch block after its
\* reconnect failed and disconnect() ran to its end.
C6_Witness ==
    /\ lastOp.op = "closeTransport"
    /\ lastOp.outcome = "failed"
    /\ lastOp.error = "none"

\* C7: no step of an execution, failing or not, changes the registry or any
\* trigger.
C7_FiringFrame ==
    [][lastOp'.op \in ExecOps => (tasks' = tasks /\ triggers' = triggers)]_vars

\* C7 witness: the executor of A has just failed and A is still active with
\* a running trigger.
C7_Witness ==
    /\ lastOp.op = "executePrompt"
    /\ lastOp.name = "A"
    /\ lastOp.outcome = "failed"
    /\ isTaskActive("A")
    /\ Running(triggers, "A") # {}

\* C8: with A's executor failing at every firing, every registered job keeps
\* being fired, every execution of B ends as completed and none as failed,
\* and A's executions keep ending in the catch block.
C8_Durable ==
    /\ [](lastOp.name = "B" => lastOp.outcome # "failed")
    /\ \A n \in Names : isTaskActive(n) ~> (lastOp.op = "fire" /\ lastOp.name = n)
    /\ (InFlight("B") > 0) ~> (lastOp.name = "B" /\ lastOp.outcome = "completed")
    /\ (InFlight("A") > 0) ~> (lastOp.name = "A" /\ lastOp.outcome = "failed")

\* C8 witness: A's executor has just failed while an execution of B is in
\* flight, and both jobs are still registered with running triggers.
C8_Witness ==
    /\ lastOp.op = "executePrompt"
    /\ lastOp.name = "A"
    /\ lastOp.outcome = "failed"
    /\ InFlight("B") > 0
    /\ Running(triggers, "A") # {}
    /\ Running(triggers, "B") # {}

C9_Stop ==
    (lastOp'.op = "stop" /\ has(tasks, lastOp'.name)) =>
        LET n == lastOp'.name
            h == get(tasks, n).task
        IN /\ ~has(tasks', n)
           /\ triggers'[h].status = "stopped"
           /\ tasks' = SelectSeq(tasks, LAMBDA t : t.name # n)
           /\ Len(triggers') = Len(triggers)
           /\ \A g \in 1..Len(triggers) : g # h => triggers'[g] = triggers[g]

\* an execution begins only for a job that is registered
FiresOnlyActive == lastOp'.op = "fire" => has(tasks, lastOp'.name)

\* C9: stop(X) on an active X removes X from the registry and stops its
\* trigger, every other entry and trigger stays as it was, and no execution
\* of a job begins while the job is not registered.
C9_StopOne == [][C9_Stop /\ FiresOnlyActive]_vars

\* C9 witness: stop("A") has just returned; A is gone and its trigger is
\* stopped, while B is still active with a running trigger.
C9_Witness ==
    /\ lastOp.op = "stop"
    /\ lastOp.name = "A"
    /\ lastOp.outcome = "stopped"
    /\ ~isTaskActive("A")
    /\ Running(triggers, "A") = {}
    /\ isTaskActive("B")
    /\ Running(triggers, "B") # {}

C10_Stop ==
    lastOp'.op = "stopAll" =>
        /\ tasks' = <<>>
        /\ Len(triggers') = Len(triggers)
        /\ \A i \in 1..Len(tasks) :
              /\ triggers'[tasks[i].task].status = "stopped"
              /\ triggers'[tasks[i].task].stops = 1
        /\ \A n \in Names : Running(triggers', n) = {}

\* C10: stop() empties the registry and stops the trigger of every
\* registered task, each exactly once; afterwards no trigger is running, and
\* no execution begins for a job that is not registered.
C10_StopAll == [][C10_Stop /\ FiresOnlyActive]_vars

\* C10 witness: stop() has just returned with two jobs registered before:
\* the registry is empty and both triggers were stopped once.
C10_Witness ==
    /\ lastOp.op = "stopAll"
    /\ tasks = <<>>
    /\ Len(triggers) = 2
    /\ \A h \in 1..Len(triggers) : triggers[h].status = "stopped" /\ triggers[h].stops = 1

\* C11: stop(name) for a name that is not registered throws nothing, logs
\* 'Task not found' and leaves the registry and every trigger as they were.
C11_StopMissing ==
    [][(lastOp'.op = "stop" /\ ~has(tasks, lastOp'.name))
       => /\ lastOp'.error = "none"
          /\ lastOp'.outcome = "not found"
          /\ tasks' = tasks
          /\ triggers' = triggers]_vars

\* C11 witness: stop("A") has just returned 'not found' while B is registered
\* with a running trigger.
C11_Witness ==
    /\ lastOp.op = "stop"
    /\ lastOp.name = "A"
    /\ lastOp.outcome = "not found"
    /\ lastOp.error = "none"
    /\ isTaskActive("B")
    /\ Running(triggers, "B") # {}

\* an execution that finishes while its job is not registered is recorded as
\* belonging to a task that is no longer registered
C12_Recorded ==
    (/\ lastOp.op \in ExecOps
     /\ lastOp.outcome \in {"completed", "failed"}
     /\ ~isTaskActive(lastOp.name))
    => lastOp.logged = "task no longer registered"

\* stop leaves every execution in flight, and the step that finishes an
\* execution neither registers its job nor starts a trigger
C12_RunsOn ==
    /\ lastOp'.op \in {"stop", "stopAll"} => execs' = execs
    /\ (lastOp'.op \in ExecOps /\ lastOp'.outcome \in {"completed", "failed"})
       => /\ has(tasks', lastOp'.name) = has(tasks, lastOp'.name)
          /\ Running(triggers', lastOp'.name) = Running(triggers, lastOp'.name)

\* C12: an execution in flight when its job is stopped runs to its end; when
\* it finishes it is recorded as belonging to a task no longer registered,
\* and it neither re-registers the job nor restarts its trigger. The code
\* logs such an execution as any other ('Scheduled task completed').
C12_Cancellation == []C12_Recorded /\ [][C12_RunsOn]_vars

\* number of executions in the bag b that are suspended at pc
CountPc(b, pc) ==
    BagCardinality([e \in {x \in BagToSet(b) : x.pc = pc} |-> b[e]])

\* the step invokes the executor: executePrompt is left pending, or it
\* rejects at once because the client is not ready
InvokesExecutor ==
    \/ CountPc(execs', "executePrompt") > CountPc(execs, "executePrompt")
    \/ lastOp'.logged = "APIError"

C13_Step ==
    /\ (lastOp'.op = "fire" /\ ~isReady) => ~InvokesExecutor
    /\ InvokesExecutor => \/ lastOp'.op = "fire" /\ isReady
                          \/ lastOp'.op = "listTools"
    /\ lastOp'.op \in {"clientConnect", "closeClient", "closeTransport"}
       => lastOp'.outcome # "completed"
    /\ lastOp'.op = "closeTransport"
       => (lastOp'.outcome = "failed" /\ lastOp'.logged = "MCPError")
    /\ CountPc(execs', "clientConnect") > CountPc(execs, "clientConnect")
       => (lastOp'.op = "fire" /\ ~isReady)

\* C13: a firing that finds the client not ready calls connect() and awaits
\* it instead of invoking the executor; the executor is invoked only by a
\* firing that finds the client ready or by the step in which connect()
\* returns; a connect() that fails ends the execution as failed with the
\* MCPError logged; and an execution enters connect() only in its firing step.
C13_ReconnectPath == [][C13_Step]_vars

\* C13 witness: a reconnect has just failed and its execution was abandoned
\* without an executor call pending; the job is still registered and running.
C13_Witness ==
    /\ lastOp.op = "closeTransport"
    /\ lastOp.outcome = "failed"
    /\ lastOp.logged = "MCPError"
    /\ CountPc(execs, "executePrompt") = 0
    /\ isTaskActive(lastOp.name)
    /\ Running(triggers, lastOp.name) # {}

\* connect() calls that have spawned a server and not yet returned or thrown
ConnectsInProgress == CountPc(execs, "clientConnect") + CountPc(execs, "listTools")

\* C14: at most one connect attempt is in progress at any time, and a server
\* is spawned only while none is. The code has no connect-in-progress flag:
\* a second firing that finds isConnected false spawns a second server.
C14_Serialized ==
    /\ [](ConnectsInProgress <= 1)
    /\ [][lastOp'.logged = "Starting MCP server" => ConnectsInProgress = 0]_vars

\* C15: when the executor has returned a result and saving it fails (mkdir
\* or writeFile throws, saveOutput logs 'Failed to save output' and throws
\* SchedulerError), the execution is still recorded as completed. In the code
\* the SchedulerError reaches executeSchedule's catch block and the execution
\* is recorded as failed.
C15_PersistenceSeparate ==
    (lastOp.op \in {"mkdir", "writeFile"} /\ lastOp.logged = "SchedulerError")
    => lastOp.outcome = "completed"

\* the label of a step that ends an execution
Finished(l) == l.op \in ExecOps /\ l.outcome \in {"completed", "failed"}

\* the executor call of the execution that the step ends had returned a result
ExecutorSucceeded(l) ==
    \/ l.op \in {"mkdir", "writeFile"}
    \/ l.op = "executePrompt" /\ l.outcome = "completed"

\* the step has written the output file ('Output saved')
Wrote(l) == l.logged = "Output saved"

C16_Iff ==
    Finished(lastOp) =>
        (Wrote(lastOp) <=> (/\ OutputPathOf(lastOp.name) # Undefined
                            /\ ExecutorSucceeded(lastOp)))

C16_OnlyIf ==
    Finished(lastOp) =>
        /\ Wrote(lastOp) => (/\ OutputPathOf(lastOp.name) # Undefined
                             /\ ExecutorSucceeded(lastOp))
        /\ lastOp.outcome = "completed"
           => (Wrote(lastOp) <=> OutputPathOf(lastOp.name) # Undefined)

\* Only the step that completes a writeFile changes the files; it writes the
\* result its execution got from the executor to the job's path, leaves every
\* other file alone and records the execution as completed in the same step.
\* The result is carried unchanged from the executor's return to the write.
C16_Content ==
    /\ files' # files => Wrote(lastOp')
    /\ Wrote(lastOp') =>
          /\ lastOp'.op = "writeFile"
          /\ lastOp'.outcome = "completed"
          /\ \E e \in BagToSet(execs) :
                /\ e.pc = "writeFile"
                /\ e.schedule.name = lastOp'.name
                /\ e.schedule.outputPath # Undefined
                /\ e.result \in Results
                /\ execs' = execs (-) SetToBag({e})
                /\ [name |-> e.schedule.name, template |-> e.schedule.outputPath,
                    content |-> e.result] \in files'
                /\ \A f \in files' : f.name = e.schedule.name => f.content = e.result
                /\ \A f \in files : f.name # e.schedule.name => f \in files'
    /\ (lastOp'.op = "mkdir" /\ lastOp'.outcome = "none") =>
          \E e \in BagToSet(execs) :
              /\ e.pc = "mkdir"
              /\ e.result \in Results
              /\ execs' = (execs (-) SetToBag({e})) (+) SetToBag({[e EXCEPT !.pc = "writeFile"]})
    /\ \A e \in BagToSet(execs') :
          e.pc \in {"mkdir", "writeFile"} <=> e.result \in Results

Spawns == lastOp'.logged = "Starting MCP server"

C17_Step ==
    /\ (lastOp'.op = "connect" /\ isConnected) =>
          /\ ~Spawns
          /\ lastOp'.logged = "MCP client already connected"
          /\ lastOp'.error = "none"
          /\ lastOp'.outcome = "resolved"
          /\ UNCHANGED <<clientVars, execs, files>>
    /\ Spawns => ~isConnected
    /\ (lastOp'.op = "connect" /\ serverProcess' # serverProcess) => Spawns

\* C17: a connect() called while the client is connected resolves without
\* spawning a process, without creating a client or a transport and without
\* changing the discovered tools; a process is spawned only by a connect()
\* that finds the client not connected, so the calls that follow a successful
\* one add no process to the one it spawned.
C17_Idempotent == [][C17_Step]_vars

\* C17 witness: with nothing else in flight, a connect() has just returned
\* from the early return of a connected client.
C17_Witness ==
    /\ lastOp.op = "connect"
    /\ lastOp.logged = "MCP client already connected"
    /\ execs = EmptyBag
    /\ isConnected
    /\ serverProcess = Object
    /\ tools = ServerTools

\* the path is the working directory or lies below it
Inside(resolved) ==
    LET segments == split(resolved)
        cwd == split(Cwd)
    IN /\ Len(segments) >= Len(cwd)
       /\ SubSeq(segments, 1, Len(cwd)) = cwd

\* C18: every file that saveOutput has written for a job of an accepted
\* configuration lies in the working directory: the file name after the
\* substitution of the job name is not absolute and resolves to a path below
\* the working directory.
C18_Confined ==
    \A f \in files :
        /\ ~isAbsolute(filename(f.name, f.template))
        /\ Inside(fullPath(f.name, f.template))

\* the connection was established, tools discovered, and its server process
\* has exited since
ConnectionLost == isConnected /\ tools = ServerTools /\ serverProcess = Exited

C19_Observed == ConnectionLost => ~isReady

C19_Step ==
    (lastOp'.op = "fire" /\ ConnectionLost) =>
        /\ ~InvokesExecutor
        /\ Spawns
        /\ CountPc(execs', "clientConnect") > CountPc(execs, "clientConnect")

\* C19: once the server process of an established connection has exited,
\* isReady() is false, and a firing then calls connect() (it starts a server
\* and awaits client.connect) instead of invoking the executor.
C19_Reconnects == []C19_Observed /\ [][C19_Step]_vars

C20_Step ==
    /\ (lastOp'.op = "execute" /\ ~isReady) =>
          /\ lastOp'.error = "APIError"
          /\ execs' = execs
    /\ (lastOp'.op \in {"sendRequest", "followUp"} /\ lastOp'.outcome = "rejected")
          => lastOp'.error = "APIError"

\* C20: executePrompt called with the client not ready rejects with APIError
\* and sends no request; and whenever a messages.create call, the first or
\* the follow-up, throws, executePrompt rejects with APIError.
C20_FailsWithAPIError == [][C20_Step]_vars

\* retry is the batch schedules with its malformed cadences corrected: the
\* same names and flags in the same order, every cadence valid, and the
\* definitions that were well formed left as they were
Corrected(schedules, retry) ==
    /\ Len(retry) = Len(schedules)
    /\ \A i \in 1..Len(schedules) :
          /\ retry[i].name = schedules[i].name
          /\ retry[i].enabled = schedules[i].enabled
          /\ validate(retry[i].cron)
          /\ validate(schedules[i].cron) => retry[i] = schedules[i]

\* the enabled definitions of the batch have distinct names, none registered
Fresh(schedules, ts) ==
    \A i \in 1..Len(schedules) :
        schedules[i].enabled =>
            /\ ~has(ts, schedules[i].name)
            /\ \A j \in 1..(i - 1) :
                  schedules[j].enabled => schedules[j].name # schedules[i].name

C21_Step ==
    (lastOp'.op = "start" /\ lastOp'.error = "SchedulerError: invalid cron") =>
        \A schedules \in Batches :
            (Fresh(schedules, tasks) /\ StartCall(schedules)) =>
                \A retry \in Batches :
                    Corrected(schedules, retry) =>
                        LET r == start(retry, tasks', triggers')
                        IN /\ r.error = "none"
                           /\ \A i \in 1..Len(retry) :
                                 retry[i].enabled =>
                                     /\ has(r.tasks, retry[i].name)
                                     /\ Running(r.triggers, retry[i].name) # {}

\* C21: when start() has thrown for a malformed cadence in a batch of fresh
\* names, a start() of the corrected batch, called on what the failed call
\* left behind, returns and leaves every enabled job of the batch registered
\* with a running trigger.
C21_Retry == [][C21_Step]_vars

\* the executions in flight that belong to job n
ExecutionsOf(b, n) == {e \in BagToSet(b) : e.schedule.name = n}

\* With the event loop idle and room within MaxInFlight, every running
\* trigger can fire, whatever executions of other jobs are in flight.
C22_CanFire ==
    \A h \in 1..Len(triggers) :
        (/\ lastOp = Idle
         /\ triggers[h].status = "running"
         /\ BagCardinality(execs) < MaxInFlight
         /\ \E e \in BagToSet(execs) : e.schedule.name # triggers[h].schedule.name)
        => ENABLED Fire(h)

\* A firing starts its job's execution in the same step (it is suspended at
\* its first await or has already failed) and leaves every execution in
\* flight where it is.
C22_Step ==
    lastOp'.op = "fire" =>
        /\ \A e \in BagToSet(execs) : CopiesIn(e, execs') >= CopiesIn(e, execs)
        /\ \/ /\ BagCardinality(execs') = BagCardinality(execs) + 1
              /\ \E e \in BagToSet(execs') :
                    /\ e.schedule.name = lastOp'.name
                    /\ e.pc \in {"clientConnect", "closeClient", "closeTransport",
                                 "executePrompt"}
                    /\ CopiesIn(e, execs') = CopiesIn(e, execs) + 1
           \/ /\ execs' = execs
              /\ lastOp'.outcome = "failed"

\* C22: while executions of other jobs are in flight (in reconnect, in the
\* executor or in the write), a firing of a job is not held back: its
\* trigger can fire as long as fewer than MaxInFlight executions are in
\* flight, and the firing step starts the job's own execution without
\* touching the others.
C22_Independent == []C22_CanFire /\ [][C22_Step]_vars

\* C22 witness: A has just fired and its execution is in flight while an
\* execution of B is suspended in its write.
C22_Witness ==
    /\ lastOp.op = "fire"
    /\ lastOp.name = "A"
    /\ \E e \in ExecutionsOf(execs, "B") : e.pc = "writeFile"
    /\ ExecutionsOf(execs, "A") # {}

\* Every handle stays, and a stopped one stays stopped.
C23_NeverRestarted ==
    /\ Len(triggers') >= Len(triggers)
    /\ \A h \in 1..Len(triggers) :
          triggers[h].status = "stopped" => triggers'[h] = triggers[h]

\* A job that becomes registered gets a handle that did not exist before,
\* running, and its entry refers to that handle.
C23_NewHandle ==
    \A n \in Names :
        (has(tasks', n) /\ ~has(tasks, n)) =>
            /\ lastOp'.op = "start"
            /\ get(tasks', n).task > Len(triggers)
            /\ get(tasks', n).task <= Len(triggers')
            /\ triggers'[get(tasks', n).task].status = "running"
            /\ triggers'[get(tasks', n).task].schedule.name = n

\* After stop(X), scheduling a well-formed definition named X succeeds, on a
\* new handle, and leaves the old handles as they are.
C23_StartAgain ==
    lastOp'.op = "stop" =>
        \A sched \in Definitions :
            (sched.name = lastOp'.name /\ validate(sched.cron)) =>
                LET r == scheduleTask(sched, tasks', triggers')
                IN /\ r.error = "none"
                   /\ has(r.tasks, sched.name)
                   /\ get(r.tasks, sched.name).task = Len(triggers') + 1
                   /\ SubSeq(r.triggers, 1, Len(triggers')) = triggers'
                   /\ r.triggers[Len(triggers') + 1].status = "running"

\* C23: no step starts a stopped trigger handle again; after stop(X) a
\* well-formed definition named X can be scheduled, and a job that becomes
\* registered is always given a newly created, running trigger and a new
\* entry that refers to it.
C23_StoppedForGood == [][C23_NeverRestarted /\ C23_NewHandle /\ C23_StartAgain]_vars

\* C23 witness: A was stopped and then started again: its first handle is
\* stopped, its entry refers to the second one, which is running.
C23_Witness ==
    /\ lastOp.op = "start"
    /\ lastOp.error = "none"
    /\ Len(triggers) = 2
    /\ triggers[1].schedule.name = "A"
    /\ triggers[1].status = "stopped"
    /\ has(tasks, "A")
    /\ get(tasks, "A").task = 2
    /\ triggers[2].status = "running"

\* C24: getActiveTasks() lists the registered jobs, which are the jobs with a
\* running trigger: one entry per job, with the name and cadence the job was
\* registered with and nextRun null, in the order of registration (the order
\* in which their triggers were created); and isTaskActive(n) holds exactly
\* for the names listed.
C24_Listing ==
    LET list == getActiveTasks(tasks)
    IN /\ Len(list) = Len(tasks)
       /\ \A i \in 1..Len(list) :
             /\ tasks[i].task \in 1..Len(triggers)
             /\ triggers[tasks[i].task].status = "running"
             /\ list[i].name = triggers[tasks[i].task].schedule.name
             /\ list[i].cron = triggers[tasks[i].task].schedule.cron
             /\ list[i].name = tasks[i].name
             /\ list[i].nextRun = Null
             /\ \A j \in 1..(i - 1) :
                   /\ list[j].name # list[i].name
                   /\ tasks[j].task < tasks[i].task
       /\ \A h \in 1..Len(triggers) :
             triggers[h].status = "running" =>
                 \E i \in 1..Len(list) : tasks[i].task = h
       /\ \A n \in Names \cup {Undefined} :
             isTaskActive(n) <=> \E i \in 1..Len(list) : list[i].name = n

\* C24 witness: A and B were registered in this order and A was stopped:
\* the list holds B alone.
C24_Witness ==
    /\ lastOp.op = "stop"
    /\ lastOp.name = "A"
    /\ Len(triggers) = 2
    /\ triggers[1].status = "stopped"
    /\ getActiveTasks(tasks) = <<[name |-> "B", cron |-> CronHourly, nextRun |-> Null]>>
    /\ ~isTaskActive("A")

RECURSIVE Flatten(_)
Flatten(pieces) ==
    IF pieces = <<>> THEN <<>> ELSE Head(pieces) \o Flatten(Tail(pieces))

\* the first position of element x in str
First(str, x) ==
    CHOOSE i \in 1..Len(str) : str[i] = x /\ \A j \in 1..(i - 1) : str[j] # x

\* The template with its placeholders replaced as they stand in the
\* template, by the texts given and nothing else: the first {name}, and of
\* {timestamp} and {date} every occurrence, or (all = FALSE) the first of each.
Substituted(template, name, timestamp, date, all) ==
    Flatten([i \in 1..Len(template) |->
        IF template[i] = "{name}" /\ i = First(template, "{name}") THEN name
        ELSE IF template[i] = "{timestamp}" /\ (all \/ i = First(template, "{timestamp}"))
        THEN timestamp
        ELSE IF template[i] = "{date}" /\ (all \/ i = First(template, "{date}")) THEN date
        ELSE <<template[i]>>])

\* x is the ISO text iso with ':' and '.' given as '-'
IsTimestampOf(x, iso) ==
    /\ Len(x) = Len(iso)
    /\ \A i \in 1..Len(iso) :
          /\ x[i] \notin {":", "."}
          /\ x[i] = iso[i] \/ (iso[i] \in {":", "."} /\ x[i] = "-")

\* d is the YYYY-MM-DD part of the ISO text iso
IsDateOf(d, iso) == d = <<iso[1]>>

\* the texts saveOutput may substitute for {timestamp} and {date}
Stamps ==
    {st \in [timestamp : {timestampOf(Clock[k]) : k \in 1..Len(Clock)},
             date : {dateOf(Clock[k]) : k \in 1..Len(Clock)}] :
        \E k1 \in 1..Len(Clock), k2 \in 1..Len(Clock) :
            /\ k1 <= k2
            /\ IsTimestampOf(st.timestamp, Clock[k1])
            /\ IsDateOf(st.date, Clock[k2])}

\* C25: in every saveOutput call the file name is the template with {name}
\* replaced by exactly the characters of the job name (the other two
\* placeholders of the template by a timestamp and a date), and the path
\* written to is that file name resolved.
C25_Verbatim ==
    \A e \in BagToSet(execs) :
        /\ \E st \in Stamps :
              e.filename = Substituted(chars(e.schedule.outputPath), chars(e.schedule.name),
                                       st.timestamp, st.date, FALSE)
        /\ e.fullPath = resolve(e.filename)

\* job names made of plain characters, '.' and '/'
PlainNames == {n \in PathNames : \A i \in 1..Len(chars(n)) :
                  chars(n)[i] \notin {"$", "&", "{name}", "{timestamp}", "{date}"}}

\* C26: for a job of a plain name and every template, saveOutput gets to its
\* mkdir with a file name in which every {timestamp} of the template stands
\* replaced by a timestamp without ':' and '.', every {date} by the
\* YYYY-MM-DD date, and every other placeholder as it was.
C26_Expanded ==
    \A e \in BagToSet(execs) :
        e.schedule.name \in PlainNames =>
            \E st \in Stamps :
                e.filename = Substituted(chars(e.schedule.outputPath),
                                         chars(e.schedule.name),
                                         st.timestamp, st.date, TRUE)

\* the fields of MCPClient as the constructor leaves them
Disconnected ==
    /\ ~isConnected
    /\ client = Null
    /\ transport = Null
    /\ serverProcess = Null
    /\ tools = {}

C27_Step ==
    /\ (lastOp'.name = Shutdown.name /\ lastOp'.outcome # "none") =>
          /\ lastOp'.outcome = "resolved"
          /\ lastOp'.error = "none"
          /\ Disconnected'
          /\ ~isReady'
    /\ (lastOp'.op = "connect" /\ Disconnected) =>
          \/ Spawns /\ serverProcess' = Object /\ client' = Object /\ transport' = Object
          \/ lastOp'.outcome = "rejected" /\ Disconnected'

\* C27: disconnect() always resolves, whether or not closing the client or
\* the transport throws, and at its return isReady() is false, no tool is
\* listed and no process, client or transport is retained; a connect() called
\* on that state starts a server anew.
C27_Disconnect == [][C27_Step]_vars

\* C27 witness: a disconnect() of a connected client has just returned after
\* both close calls.
C27_Witness ==
    /\ lastOp.op = "closeTransport"
    /\ lastOp.name = Shutdown.name
    /\ lastOp.outcome = "resolved"
    /\ execs = EmptyBag
    /\ Disconnected

C28_Step ==
    (lastOp'.name = Direct.name /\ lastOp'.outcome = "rejected") =>
        /\ lastOp'.error = "MCPError"
        /\ Disconnected'
        /\ ~isReady'

\* C28: a connect() that fails, at the spawn, at client.connect or at the
\* tool discovery, rejects with MCPError, and at that moment isReady() is
\* false, no tool is listed and no process, client or transport is retained.
C28_FailedConnect == [][C28_Step]_vars

\* C28 witness: a connect() that had created process, transport and client
\* has failed at a later step and has just rejected, after closing both.
C28_Witness ==
    /\ lastOp.op = "closeTransport"
    /\ lastOp.name = Direct.name
    /\ lastOp.outcome = "rejected"
    /\ lastOp.error = "MCPError"
    /\ Disconnected

\* the request of a callTool is not sent: no call is added to those in flight
NotForwarded == execs' = execs /\ lastOp'.logged # "Calling MCP tool"

C29_Step ==
    /\ (lastOp'.op = "callTool" /\ (client = Null \/ lastOp'.name \notin tools)) =>
          /\ lastOp'.outcome = "rejected"
          /\ lastOp'.error = "MCPError"
          /\ NotForwarded
          /\ UNCHANGED clientVars
    /\ lastOp'.op = "clientCallTool" =>
          /\ \/ lastOp'.outcome = "resolved" /\ lastOp'.error = "none"
             \/ lastOp'.outcome = "rejected" /\ lastOp'.error = "MCPError"
          /\ UNCHANGED clientVars

\* C29: callTool, called without a client or with a tool name that was not
\* discovered, rejects with MCPError, sends nothing to the server and leaves
\* the connection fields and the tool list as they were; a forwarded call
\* that fails rejects with MCPError too.
C29_CallTool == [][C29_Step]_vars

\* The first part with "not connected" read as isReady() being false: it
\* fails after overlapping connect() calls, when the tools of an earlier
\* connection are listed beside the client of a connection still being made.
C29_NotReady ==
    [][(lastOp'.op = "callTool" /\ ~isReady) => NotForwarded]_vars

\* C29 witness: on a connected client with its tools discovered, a call of a
\* tool that the server does not expose has just been rejected.
C29_Witness ==
    /\ lastOp.op = "callTool"
    /\ lastOp.name = "unknown_tool"
    /\ lastOp.outcome = "rejected"
    /\ isReady
    /\ tools = ServerTools

\* a loadConfig() is rejected in this step
LoadRejected == lastOp'.op = "readFile" /\ lastOp'.outcome = "rejected"

C30_Step ==
    /\ (lastOp'.op = "getConfig" /\ config = NoConfig) =>
          /\ lastOp'.outcome = "threw"
          /\ lastOp'.error = "ConfigurationError"
    /\ (lastOp'.op = "getConfig" /\ lastOp'.outcome = "returned") =>
          /\ validateSchedules(config.schedules)
          /\ validateMCPConfig(config.mcp)
          /\ validateAnthropicConfig(config.anthropic)
    /\ (LoadRejected /\ config = NoConfig) =>
          getConfig(config').error = "ConfigurationError"

\* C30: getConfig() throws ConfigurationError before any load; the
\* configuration it returns is one that passes validation; and when a
\* loadConfig() is rejected and none has succeeded before, getConfig()
\* still throws ConfigurationError.
C30_OnlyAfterSuccess == [][C30_Step]_vars

\* a loadConfig() that has read and parsed the file returns or throws in this
\* step; config' is then the merged configuration it validated
LoadValidated ==
    /\ lastOp'.op = "readFile"
    /\ lastOp'.error # "ConfigurationError"
    /\ lastOp'.logged # "Config file not found, using defaults"

\* two schedules share a name, or a schedule has an empty name, cron or prompt
BadSchedule(schedules) ==
    \E i \in 1..Len(schedules) :
        \/ schedules[i].name = ""
        \/ schedules[i].cron = <<>>
        \/ schedules[i].prompt = ""
        \/ \E j \in 1..Len(schedules) : j # i /\ schedules[j].name = schedules[i].name

\* an outputPath is absolute or contains '..', as written
BadPathWritten(schedules) ==
    \E i \in 1..Len(schedules) :
        /\ schedules[i].outputPath # Undefined
        /\ \/ isAbsolute(chars(schedules[i].outputPath))
           \/ includes(chars(schedules[i].outputPath), <<".", ".">>)

\* an outputPath is absolute or contains '..' once normalized
BadPathNormalized(schedules) ==
    \E i \in 1..Len(schedules) :
        /\ schedules[i].outputPath # Undefined
        /\ \/ isAbsolute(normalize(chars(schedules[i].outputPath)))
           \/ includes(normalize(chars(schedules[i].outputPath)), <<".", ".">>)

\* the names of a batch are pairwise distinct
DistinctNames(schedules) ==
    \A i, j \in 1..Len(schedules) : schedules[i].name = schedules[j].name => i = j

C31_Rejected == lastOp'.outcome = "rejected" /\ lastOp'.error = "ValidationError"

\* C31 as stated: loadConfig() rejects with ValidationError every
\* configuration in which two schedules share a name, a schedule has an empty
\* name, cron or prompt, or an outputPath is absolute or contains '..'; the
\* schedules of a configuration it returns have pairwise distinct names.
C31_Rejects ==
    [][/\ (LoadValidated /\ (BadSchedule(config'.schedules)
                                \/ BadPathWritten(config'.schedules))) => C31_Rejected
       /\ (LoadValidated /\ lastOp'.outcome = "resolved") =>
              DistinctNames(config'.schedules)]_vars

\* C31 amended: the same with the outputPath tested after path.normalize, so
\* that a '..' that normalization resolves inside the path is accepted.
C31_RejectsNormalized ==
    [][/\ (LoadValidated /\ (BadSchedule(config'.schedules)
                                \/ BadPathNormalized(config'.schedules))) => C31_Rejected
       /\ (LoadValidated /\ lastOp'.outcome = "resolved") =>
              DistinctNames(config'.schedules)]_vars

\* C31 witness: a configuration of two schedules of one name, the second
\* disabled, has just been rejected with ValidationError.
C31_Witness ==
    /\ lastOp.op = "readFile"
    /\ lastOp.outcome = "rejected"
    /\ lastOp.error = "ValidationError"
    /\ config # NoConfig
    /\ Len(config.schedules) = 2
    /\ config.schedules[1].name = config.schedules[2].name
    /\ ~config.schedules[2].enabled

\* the executePrompt calls in flight
Calls(b) == {e \in BagToSet(b) : e.pc \in {"sendRequest", "callTool", "followUp"}}

\* the tool results pushed so far answer the first tool_use blocks, one
\* each, in their order
Answers(toolResults, toolUses) ==
    /\ Len(toolResults) <= Len(toolUses)
    /\ \A i \in 1..Len(toolResults) : toolResults[i].tool_use_id = toolUses[i]

C32_Results ==
    \A e \in Calls(execs) :
        /\ Answers(e.toolResults, e.toolUses)
        /\ e.pc = "callTool" => Len(e.toolResults) < Len(e.toolUses)
        /\ e.pc = "followUp" =>
              Len(e.toolResults) = Len(e.toolUses) /\ Len(e.toolUses) > 0

C32_Step ==
    /\ lastOp'.op = "callTool" =>
          /\ lastOp'.outcome = "none"
          /\ \E e \in Calls(execs), e2 \in Calls(execs') :
                /\ e.pc = "callTool"
                /\ execs' = (execs (-) SetToBag({e})) (+) SetToBag({e2})
                /\ e2.toolUses = e.toolUses
                /\ Len(e2.toolResults) = Len(e.toolResults) + 1
                /\ SubSeq(e2.toolResults, 1, Len(e.toolResults)) = e.toolResults
                /\ lastOp'.logged = "Tool execution failed" =>
                      e2.toolResults[Len(e2.toolResults)].is_error
    /\ \A e \in Calls(execs), text \in Results, toolUses \in ToolUses :
          FollowUpReturn(e, "none", text, toolUses) =>
              lastOp'.outcome = "resolved" /\ lastOp'.result = text

\* C32: a tool call that throws does not settle executePrompt: a result is
\* pushed for the tool_use at hand, with its tool_use_id and with is_error
\* set, so that when the follow-up request is sent there is one result for
\* each tool_use block of the first response, in the same order; the text of
\* the follow-up response is what executePrompt returns.
C32_ToolFailureContained == []C32_Results /\ [][C32_Step]_vars

\* C32 witness: the follow-up request is in flight for a first response with
\* the tool_use blocks 2 and 1, in this order, the first of which threw.
C32_Witness ==
    \E e \in Calls(execs) :
        /\ e.pc = "followUp"
        /\ e.toolUses = <<2, 1>>
        /\ Len(e.toolResults) = 2
        /\ e.toolResults[1] = [tool_use_id |-> 2, is_error |-> TRUE]
        /\ e.toolResults[2] = [tool_use_id |-> 1, is_error |-> FALSE]

\* how far a call is from its end: a bound on the awaits still to come
Remaining(e) ==
    CASE e.pc = "sendRequest" -> MaxToolUses + 2
      [] e.pc = "callTool" -> Len(e.toolUses) - Len(e.toolResults) + 1
      [] e.pc = "followUp" -> 1

C33_Requests ==
    \A e \in Calls(execs) :
        /\ e.requests <= 2
        /\ e.pc \in {"sendRequest", "callTool"} => e.requests = 1
        /\ e.pc = "followUp" => e.requests = 2

C33_Step ==
    /\ lastOp'.op \in {"sendRequest", "callTool", "followUp"} =>
          \E e \in Calls(execs) :
              \/ execs' = execs (-) SetToBag({e}) /\ lastOp'.outcome # "none"
              \/ \E e2 \in Calls(execs') :
                    /\ execs' = (execs (-) SetToBag({e})) (+) SetToBag({e2})
                    /\ Remaining(e2) < Remaining(e)
    /\ \A e \in Calls(execs), text \in Results :
          SendRequestReturn(e, "none", text, <<>>) =>
              lastOp'.outcome = "resolved" /\ lastOp'.result = text
    /\ lastOp'.op = "followUp" =>
          /\ lastOp'.outcome # "none"
          /\ \E e \in Calls(execs) : e.pc = "followUp" /\ execs' = execs (-) SetToBag({e})

\* C33: executePrompt makes at most two messages.create calls: a first
\* response without tool use is returned after one request, every await
\* brings the call nearer to its end, and the resumption after the follow-up
\* request settles the call whatever tool_use blocks that response holds.
C33_Terminates == []C33_Requests /\ [][C33_Step]_vars

\* C33 witness: executePrompt has just returned the text of the follow-up
\* response, its second request, and no call is left in flight.
C33_Witness ==
    /\ lastOp.op = "followUp"
    /\ lastOp.outcome = "resolved"
    /\ lastOp.result \in Results
    /\ execs = EmptyBag

\* the awaits of executeSchedule, by how many can still follow
Rank(pc) ==
    CASE pc = "clientConnect" -> 7
      [] pc = "listTools" -> 6
      [] pc = "closeClient" -> 5
      [] pc = "closeTransport" -> 4
      [] pc = "executePrompt" -> 3
      [] pc = "mkdir" -> 2
      [] pc = "writeFile" -> 1

\* the step records an outcome of executeSchedule
Outcome == lastOp'.outcome \in {"completed", "failed"}

C34_Step ==
    /\ lastOp'.op = "fire" =>
          \/ Outcome /\ execs' = execs
          \/ /\ ~Outcome
             /\ \E e2 \in BagToSet(execs') :
                   /\ execs' = execs (+) SetToBag({e2})
                   /\ e2.schedule.name = lastOp'.name
    /\ lastOp'.op \in {"clientConnect", "listTools", "closeClient", "closeTransport",
                       "executePrompt", "mkdir", "writeFile"} =>
          \E e \in BagToSet(execs) :
              /\ e.schedule.name = lastOp'.name
              /\ \/ Outcome /\ execs' = execs (-) SetToBag({e})
                 \/ /\ ~Outcome
                    /\ \E e2 \in BagToSet(execs') :
                          /\ execs' = (execs (-) SetToBag({e})) (+) SetToBag({e2})
                          /\ e2.schedule = e.schedule
                          /\ Rank(e2.pc) < Rank(e.pc)
    /\ Outcome =>
          lastOp'.op \in {"fire", "clientConnect", "listTools", "closeClient",
                          "closeTransport", "executePrompt", "mkdir", "writeFile"}
    /\ BagCardinality(execs') < BagCardinality(execs) => Outcome

\* C34: a firing either ends at once with one outcome record or leaves one
\* execution in flight; every resumption of an execution either ends it with
\* one outcome record, 'completed' or 'failed', or moves it to a later await,
\* of which there are at most seven; no execution leaves without an outcome
\* record and no outcome is recorded by any other step.
C34_OneOutcome == [][C34_Step]_vars

\* C34 witness: the execution of a job has just ended 'completed' with its
\* output saved while an execution of another job is still in flight.
C34_Witness ==
    /\ lastOp.outcome = "completed"
    /\ lastOp.logged = "Output saved"
    /\ \E e \in BagToSet(execs) : e.schedule.name # lastOp.name

\* ------------------------------------------------------------------ shutdown
\* The application as main runs it: the tool connection is connected before
\* the scheduler is created, start is called once with the configured
\* schedules, and SIGINT or SIGTERM runs shutdown.
MainInit ==
    /\ tasks = <<>>
    /\ triggers = <<>>
    /\ execs = EmptyBag
    /\ isConnected = TRUE
    /\ client = Object
    /\ transport = Object
    /\ serverProcess = Object
    /\ tools = ServerTools
    /\ files = {}
    /\ config = NoConfig
    /\ lastOp = Idle

\* shutdown has been called
ShuttingDown ==
    \/ lastOp.name = Shutdown.name
    \/ \E e \in BagToSet(execs) : e.schedule = Shutdown

\* process.exit: by shutdown once disconnect() has resolved, or by main's
\* catch block when start throws
ProcessExited ==
    \/ lastOp.name = Shutdown.name /\ lastOp.outcome = "resolved"
    \/ lastOp.op = "start" /\ lastOp.error # "none"

\* main: scheduler.start(config.schedules)
MainStart ==
    /\ tasks = <<>>
    /\ triggers = <<>>
    /\ ~ShuttingDown
    /\ Start

\* a shutdown that disconnects and leaves the triggers running
ShutdownStart_keepsTriggers ==
    /\ lastOp = Idle
    /\ BagCardinality(execs) <= MaxInFlight
    /\ UNCHANGED <<tasks, triggers, files, config>>
    /\ IF client # Null
       THEN /\ execs' = execs (+) SetToBag({Exec(Shutdown, "closeClient")})
            /\ lastOp' = Label("shutdown", Shutdown.name, "none", "none", FALSE)
            /\ UNCHANGED clientVars
       ELSE IF transport # Null
       THEN /\ execs' = execs (+) SetToBag({Exec(Shutdown, "closeTransport")})
            /\ lastOp' = Label("shutdown", Shutdown.name, "none", "none", FALSE)
            /\ UNCHANGED clientVars
       ELSE /\ Reset
            /\ UNCHANGED execs
            /\ lastOp' = Label("shutdown", Shutdown.name, "none", "resolved", FALSE)

\* The signal handler's shutdown up to its first await: scheduler.stop()
\* stops every trigger and clears the registry, then disconnect() runs to
\* its first await, or, with nothing to close, to its end, after which the
\* process exits.
ShutdownStart ==
    LET r == stopAll(tasks, triggers)
    IN /\ lastOp = Idle
       /\ BagCardinality(execs) <= MaxInFlight
       /\ tasks' = r.tasks
       /\ triggers' = r.triggers
       /\ UNCHANGED <<files, config>>
       /\ IF client # Null
          THEN /\ execs' = execs (+) SetToBag({Exec(Shutdown, "closeClient")})
               /\ lastOp' = Label("shutdown", Shutdown.name, "none", "none", FALSE)
               /\ UNCHANGED clientVars
          ELSE IF transport # Null
          THEN /\ execs' = execs (+) SetToBag({Exec(Shutdown, "closeTransport")})
               /\ lastOp' = Label("shutdown", Shutdown.name, "none", "none", FALSE)
               /\ UNCHANGED clientVars
          ELSE /\ Reset
               /\ UNCHANGED execs
               /\ lastOp' = Label("shutdown", Shutdown.name, "none", "resolved", FALSE)

\* The turn ends and the process is still running.
Alive == ~ProcessExited /\ Return

ShutdownNext ==
    \/ Alive
    \/ MainStart
    \/ ShutdownStart
    \/ Trigger
    \/ CloseClient
    \/ CloseTransport
    \/ Executor
    \/ Mkdir
    \/ WriteFile

ShutdownSpec == MainInit /\ [][ShutdownNext]_vars

\* once shutdown has been called no trigger is running
C35_Stopped ==
    ShuttingDown => \A h \in 1..Len(triggers) : triggers[h].status = "stopped"

C35_Step ==
    /\ ShuttingDown => lastOp'.op # "fire"
    /\ ShuttingDown' /\ lastOp'.op \in ExecOps /\ lastOp'.name # Shutdown.name =>
          /\ lastOp'.error = "none"
          /\ \A e \in BagToSet(execs) :
                 e.schedule # Shutdown /\ BagCardinality(execs') < BagCardinality(execs)
                     => lastOp'.outcome \in {"completed", "failed"}

\* C35: shutdown stops every trigger in the turn in which it starts to
\* disconnect, so from then on no trigger is running and no step is a firing;
\* an execution still in flight ends inside executeSchedule, 'completed' or
\* 'failed', and throws nothing to its caller.
C35_StopsFirst == []C35_Stopped /\ [][C35_Step]_vars

\* C35 witness: the execution of a job failed after shutdown had closed the
\* client and while it was closing the transport; the job's trigger is stopped.
C35_Witness ==
    /\ lastOp.outcome = "failed"
    /\ lastOp.op = "executePrompt"
    /\ \E e \in BagToSet(execs) : e.schedule = Shutdown /\ e.pc = "closeTransport"
    /\ \E h \in 1..Len(triggers) :
           triggers[h].schedule.name = lastOp.name /\ triggers[h].status = "stopped"

\* a firing's executeSchedule reads isReady() as true and goes on to the
\* prompt executor, which reads getAvailableTools()
C36_Step == lastOp'.op = "fire" /\ isReady => tools # {}

\* C36: whenever a firing finds isReady() true, the tools of the server,
\* which exposes some, have been discovered: getAvailableTools() is not the
\* empty list that connect() starts from.
C36_ReadyMeansDiscovered == [][C36_Step]_vars

\* The connected state was established by a connect() that has returned: the
\* flag is set, and no call in flight is one that has set it (a call awaiting
\* listTools) or one that is busy closing.
C37_Established ==
    /\ isConnected
    /\ \A e \in BagToSet(execs) : e.pc \notin {"listTools", "closeClient", "closeTransport"}

\* the step is the failure of an overlapping connect(): its client.connect
\* has settled and the call does not go on to discover tools
C37_OtherFails ==
    /\ lastOp'.op = "clientConnect"
    /\ \A e \in BagToSet(execs') : e.pc # "listTools"

C37_Step ==
    C37_Established /\ C37_OtherFails =>
        /\ isConnected'
        /\ \A e \in BagToSet(execs') : e.pc \notin {"closeClient", "closeTransport"}

\* C37: when a connect() fails while the connection established by another,
\* successful connect() is in place, its cleanup neither starts to close the
\* client and transport held by the connection nor clears the connected flag.
C37_CleanupOwnOnly == [][C37_Step]_vars

\* ------------------------------------------------------------------ server process error
\* The process spawned by connect() emits 'error' (the command cannot be
\* spawned, or the process cannot be killed): an event of its own turn, not
\* the settling of anything connect() awaits. The handler registered in
\* connect() logs 'MCP server process error' and throws MCPError; the throw
\* leaves the listener and emit() with no caller of MCPClient on the stack.
ServerProcessError ==
    /\ lastOp = Idle
    /\ serverProcess = Object
    /\ lastOp' = [Label("serverProcessError", "", "MCPError", "uncaught", FALSE)
                    EXCEPT !.logged = "MCP server process error"]
    /\ UNCHANGED <<tasks, triggers, execs, clientVars, files, config>>

\* an exception that no caller catches ends the process
Crashed == lastOp.outcome = "uncaught"

\* The turn ends and the process goes on.
Survive == ~Crashed /\ Return

\* The scheduler and its tool connection, with a server process that may
\* report an error.
ErrorNext ==
    \/ Survive
    \/ Start
    \/ ServerProcessError
    \/ Trigger
    \/ ClientConnect
    \/ ListTools
    \/ CloseClient
    \/ CloseTransport
    \/ Executor
    \/ Mkdir
    \/ WriteFile

ErrorSpec == Init /\ [][ErrorNext]_vars

\* C38: an error that the spawned server process reports in its 'error'
\* event throws nothing outside an awaiting caller: the turn that handles
\* the event ends without an error, and no exception is ever left uncaught.
C38_Contained ==
    /\ lastOp.op = "serverProcessError" => lastOp.error = "none"
    /\ ~Crashed

\* the template holds both {timestamp} and {date}
C39_BothPlaceholders(template) ==
    /\ \E i \in 1..Len(template) : template[i] = "{timestamp}"
    /\ \E i \in 1..Len(template) : template[i] = "{date}"

\* C39: in every saveOutput call for a job of a plain name and a template
\* with {timestamp} and {date}, the file name is the template expanded with
\* the timestamp and the date of one and the same reading of the clock.
C39_SameInstant ==
    \A e \in BagToSet(execs) :
        (e.schedule.name \in PlainNames
            /\ C39_BothPlaceholders(chars(e.schedule.outputPath))) =>
            \E k \in 1..Len(Clock) :
                e.filename = Substituted(chars(e.schedule.outputPath),
                                         chars(e.schedule.name),
                                         timestampOf(Clock[k]), dateOf(Clock[k]), FALSE)
====
